---- MODULE Spec2Model ----
(***************************************************************************)
(* ExploreTheCity: the location tracker (domain/geo, domain/tracking,      *)
(* utils/tracking/TrackingContext.tsx) and the image-quest matcher         *)
(* (utils/firebase/imageQuest.ts, utils/gemini.ts).                        *)
(*                                                                         *)
(* Numbers.  The code computes in IEEE doubles; the model computes in      *)
(* fixed point:                                                            *)
(*   coordinates   micro-degrees (1e-6 degree), absolute                   *)
(*   distances     decimetres                                              *)
(*   points        hundredths of a point (0.1 point per metre is one       *)
(*                 hundredth per decimetre; the cell bonus 50 is 5000)     *)
(*   time          milliseconds; the clock advances TickMs at a time       *)
(***************************************************************************)
EXTENDS Integers, Sequences, FiniteSets, TLC

VARIABLES
    \* ---- domain/tracking/tracker.ts, folded directly (SpecAdvance)
    trackingState,      \* TrackingState
    lastResult,         \* the LocationUpdateResult of the last call, or NoResult
    fixCount,           \* number of handleLocationUpdate calls made
    bonusCalls,         \* number of calls that returned newCellVisited = true
    fixCells,           \* cells of all fixes folded so far (latLngToCell of each)
    fixWalk,            \* the fixes folded so far, in call order
    stateBefore,        \* the TrackingState the last call was made with
    \* ---- domain/geo/grid.ts, called directly (SpecGrid)
    gridPoint,          \* the coordinate latLngToCell was last called with
    gridCellId,         \* the CellId it returned: the characters of "x_y"
    gridCenter,         \* what cellCenter returned for that id, or NoLoc
    gridPolygon,        \* what cellToPolygon returned for that id, or <<>>
    \* ---- the durable store: the document clients/<uid> of the one identity
    clientDoc,          \* [imageQuestSolvedIds, accumulatedScore]
    \* ---- utils/firebase/imageQuest.ts, markQuestAsSolved called directly
    commitLog,          \* the markQuestAsSolved calls made: [questId, pointsEarned, state]
    \* ---- utils/gemini.ts and utils/firebase/imageQuest.ts, submitQuestImage
    now,                \* Date.now(), milliseconds
    lastApiCallTime,    \* gemini.ts: let lastApiCallTime
    prevApiCallTime,    \* start of the oracle call before the last one (0: none)
    attempts,           \* per submitQuestImage call: its position and locals
    \* ---- utils/tracking/TrackingContext.tsx, TrackingProvider
    user,               \* useAuth().user: a uid, or NoUser
    clientIdRef,        \* clientIdRef.current
    lastLoadedUserIdRef,
    pendingCellsRef,    \* pendingCellsRef.current: sequence of cell ids
    pendingPointsRef,   \* pendingPointsRef.current
    appState,           \* appState.current
    loads,              \* loadFromBackend calls whose getDoc has not been delivered
    storeDocs,          \* the store: uid -> [exists, mapGridIds, accumulatedScore]
    syncLog,            \* the setDoc calls issued by syncBatchToFirebase
    position,           \* where the device is (index of a point of the walk)
    userChanges,        \* number of identity changes so far
    flushRequests,      \* number of manual and app-state flush triggers so far
    run,                \* new-cell fixes in a row since the buffer was empty (-1: none)
    runFlushes,         \* setDoc calls issued during that run
    bufferedCells,      \* cell ids that joined the buffer since the last reset
    bufferedPoints      \* points that joined the buffer since the last reset

gridVars == <<gridPoint, gridCellId, gridCenter, gridPolygon>>

advVars ==
    <<trackingState, lastResult, fixCount, bonusCalls, fixCells, fixWalk, stateBefore, gridVars>>

commitVars == <<clientDoc, commitLog>>

matchVars == <<now, lastApiCallTime, prevApiCallTime, attempts>>

trackVars ==
    <<user, clientIdRef, lastLoadedUserIdRef, pendingCellsRef, pendingPointsRef,
      appState, loads, storeDocs, syncLog, position, userChanges, flushRequests,
      run, runFlushes, bufferedCells, bufferedPoints>>

vars == <<advVars, commitVars, matchVars, trackVars>>

-----------------------------------------------------------------------------
(* domain/geo/grid.ts *)

CELL_SIZE_METERS == 50

\* ORIGIN, in micro-degrees
ORIGIN == [lat |-> 45753720, lng |-> 21225710]

METERS_PER_DEG_LAT == 111320

\* metersPerDegLng(ORIGIN.lat) = 111320 * cos(45.75372 deg) = 77672.86, to the metre
MetersPerDegLngAtOrigin == 77673

FloorDiv(a, b) == a \div b

\* a coordinate, given by its offset from ORIGIN in micro-degrees
At(dLat, dLng) == [lat |-> ORIGIN.lat + dLat, lng |-> ORIGIN.lng + dLng]

\* mutant: a degree of longitude is taken to be as long as one of latitude
latLngToCell_NoCosine(location) ==
    LET dLat == location.lat - ORIGIN.lat
        dLng == location.lng - ORIGIN.lng
    IN  <<FloorDiv(dLng * METERS_PER_DEG_LAT, CELL_SIZE_METERS * 1000000),
          FloorDiv(dLat * METERS_PER_DEG_LAT, CELL_SIZE_METERS * 1000000)>>

\* latLngToCell: the cell id "x_y" is the pair <<x, y>>; the template string
\* `${xIndex}_${yIndex}` is injective on pairs of integers.
latLngToCell(location) ==
    LET dLat == location.lat - ORIGIN.lat
        dLng == location.lng - ORIGIN.lng
        \* metres * 1e6 (the degrees are micro-degrees)
        xMicroMeters == dLng * MetersPerDegLngAtOrigin
        yMicroMeters == dLat * METERS_PER_DEG_LAT
        xIndex == FloorDiv(xMicroMeters, CELL_SIZE_METERS * 1000000)
        yIndex == FloorDiv(yMicroMeters, CELL_SIZE_METERS * 1000000)
    IN  <<xIndex, yIndex>>

\* ---- the CellId as the string the code builds and parses: a sequence of
\* ---- characters

DigitChars == <<"0", "1", "2", "3", "4", "5", "6", "7", "8", "9">>

\* the decimal digits of a natural number
RECURSIVE DigitsOf(_)
DigitsOf(n) ==
    IF n < 10 THEN <<DigitChars[n + 1]>>
    ELSE DigitsOf(n \div 10) \o <<DigitChars[(n % 10) + 1]>>

\* `${n}` for an integer n
NumberToString(n) == IF n < 0 THEN <<"-">> \o DigitsOf(-n) ELSE DigitsOf(n)

\* `${xIndex}_${yIndex}`
CellIdString(cell) == NumberToString(cell[1]) \o <<"_">> \o NumberToString(cell[2])

\* where the separator occurs in the string
SeparatorsIn(str) == {i \in DOMAIN str : str[i] = "_"}

\* the first two parts of cellId.split("_"); a missing part is undefined,
\* which parseInt reads like a string without digits
SplitCellId(cellId) ==
    LET seps == SeparatorsIn(cellId)
        first == IF seps = {} THEN Len(cellId) + 1
                 ELSE CHOOSE i \in seps : \A j \in seps : i <= j
        later == {i \in seps : i > first}
        second == IF later = {} THEN Len(cellId) + 1
                  ELSE CHOOSE i \in later : \A j \in later : i <= j
    IN  <<SubSeq(cellId, 1, first - 1), SubSeq(cellId, first + 1, second - 1)>>

\* the value of a character as a decimal digit, -1 when it is none
DigitValue(c) ==
    IF \E d \in DOMAIN DigitChars : DigitChars[d] = c
    THEN (CHOOSE d \in DOMAIN DigitChars : DigitChars[d] = c) - 1
    ELSE -1

\* the value of the leading digits of a string, read left to right
RECURSIVE LeadingDigits(_, _, _)
LeadingDigits(str, i, acc) ==
    IF i > Len(str) \/ DigitValue(str[i]) < 0 THEN acc
    ELSE LeadingDigits(str, i + 1, 10 * acc + DigitValue(str[i]))

\* what parseInt returns for a string without a leading digit
NaN == [nan |-> TRUE]

\* parseInt(str, 10): an optional sign, then digits up to the first
\* character that is none
parseInt(str) ==
    LET signed == str # <<>> /\ str[1] \in {"-", "+"}
        from == IF signed THEN 2 ELSE 1
    IN  IF from > Len(str) \/ DigitValue(str[from]) < 0 THEN NaN
        ELSE IF signed /\ str[1] = "-" THEN 0 - LeadingDigits(str, from, 0)
        ELSE LeadingDigits(str, from, 0)

\* a / b rounded to the nearest integer (b > 0)
RoundDiv(a, b) == FloorDiv(2 * a + b, 2 * b)

\* metersToLatLng(xMeters, yMeters), the result to the micro-degree
metersToLatLng(xMeters, yMeters) ==
    [lat |-> ORIGIN.lat + RoundDiv(yMeters * 1000000, METERS_PER_DEG_LAT),
     lng |-> ORIGIN.lng + RoundDiv(xMeters * 1000000, MetersPerDegLngAtOrigin)]

\* mutant: the south-west corner of the cell is returned as its centre
cellCenter_Corner(cellId) ==
    LET parts == SplitCellId(cellId)
    IN  metersToLatLng(parseInt(parts[1]) * CELL_SIZE_METERS,
                       parseInt(parts[2]) * CELL_SIZE_METERS)

\* cellCenter(cellId); (xIndex + 0.5) * CELL_SIZE_METERS is a whole number
\* of metres
cellCenter(cellId) ==
    LET parts == SplitCellId(cellId)
        xIndex == parseInt(parts[1])
        yIndex == parseInt(parts[2])
        half == CELL_SIZE_METERS \div 2
    IN  metersToLatLng(xIndex * CELL_SIZE_METERS + half,
                       yIndex * CELL_SIZE_METERS + half)

\* cellToPolygon(cellId): the corners NW, NE, SE, SW
cellToPolygon(cellId) ==
    LET parts == SplitCellId(cellId)
        xIndex == parseInt(parts[1])
        yIndex == parseInt(parts[2])
        half == CELL_SIZE_METERS \div 2
        xCenter == xIndex * CELL_SIZE_METERS + half
        yCenter == yIndex * CELL_SIZE_METERS + half
    IN  <<metersToLatLng(xCenter - half, yCenter + half),
          metersToLatLng(xCenter + half, yCenter + half),
          metersToLatLng(xCenter + half, yCenter - half),
          metersToLatLng(xCenter - half, yCenter - half)>>

-----------------------------------------------------------------------------
(* domain/geo/distance.ts *)

\* EARTH_RADIUS_METERS * pi / 180 = 111194.93 metres per degree of arc
EarthMetersPerDeg == 111195

\* EarthMetersPerDeg * cos(45.75372 deg) = 77585.59
EarthMetersPerDegLng == 77586

Abs(x) == IF x < 0 THEN -x ELSE x

\* floor of the square root of n, known to lie in lo..hi
ISqrt(n, lo, hi) == CHOOSE r \in lo..hi : r * r <= n /\ n < (r + 1) * (r + 1)

\* haversineDistance, in decimetres.  Over the few hundred metres the model
\* covers, the haversine formula agrees with the planar distance below to
\* well under a decimetre; cos(lat1)*cos(lat2) is taken at the origin latitude.
haversineDistance(a, b) ==
    LET dyDm == (Abs(b.lat - a.lat) * EarthMetersPerDeg) \div 100000
        dxDm == (Abs(b.lng - a.lng) * EarthMetersPerDegLng) \div 100000
    IN  ISqrt(dxDm * dxDm + dyDm * dyDm,
              IF dxDm > dyDm THEN dxDm ELSE dyDm, dxDm + dyDm)

-----------------------------------------------------------------------------
(* domain/tracking/tracker.ts *)

NoLoc == [lat |-> 0, lng |-> 0]    \* lastLocation: undefined

NoResult == [none |-> TRUE]

\* the anti-noise filter `dist > 3` (metres), in decimetres
NoiseThresholdDm == 30

\* `gainedPoints += 50`, in hundredths of a point
CellBonus == 5000

\* mutant: one point per metre walked
MovementPoints_PerMetre(distDm) == distDm * 10

\* `dist * 0.1` points per metre: one hundredth of a point per decimetre
MovementPoints(distDm) == distDm

createInitialTrackingState ==
    [lastLocation |-> NoLoc, totalDistanceMeters |-> 0, points |-> 0,
     visitedCells |-> {}]

\* mutant: the bonus is given without looking at visitedCells
handleLocationUpdate_NoVisitedCheck(prevState, newLocation) ==
    LET cellId == latLngToCell(newLocation)
        dist == IF prevState.lastLocation # NoLoc
                THEN haversineDistance(prevState.lastLocation, newLocation)
                ELSE 0
        moved == prevState.lastLocation # NoLoc /\ dist > NoiseThresholdDm
        gainedPoints == (IF moved THEN MovementPoints(dist) ELSE 0) + CellBonus
    IN  [state |-> [lastLocation |-> newLocation,
                    totalDistanceMeters |->
                        prevState.totalDistanceMeters + (IF moved THEN dist ELSE 0),
                    points |-> prevState.points + gainedPoints,
                    visitedCells |-> prevState.visitedCells \cup {cellId}],
         gainedDistance |-> IF moved THEN dist ELSE 0,
         gainedPoints |-> gainedPoints,
         newCellVisited |-> TRUE,
         lastCellId |-> cellId]

\* mutant: the bonus is given but the cell is not recorded as visited
handleLocationUpdate_NoCellAdd(prevState, newLocation) ==
    LET hasLast == prevState.lastLocation # NoLoc
        dist == IF hasLast
                THEN haversineDistance(prevState.lastLocation, newLocation)
                ELSE 0
        moved == hasLast /\ dist > NoiseThresholdDm
        gainedDistance == IF moved THEN dist ELSE 0
        movePoints == IF moved THEN MovementPoints(dist) ELSE 0
        cellId == latLngToCell(newLocation)
        alreadyHad == cellId \in prevState.visitedCells
        newCellVisited == ~alreadyHad
        gainedPoints == movePoints + (IF newCellVisited THEN CellBonus ELSE 0)
    IN  [state |-> [lastLocation |-> newLocation,
                    totalDistanceMeters |->
                        prevState.totalDistanceMeters + gainedDistance,
                    points |-> prevState.points + gainedPoints,
                    visitedCells |-> prevState.visitedCells],
         gainedDistance |-> gainedDistance,
         gainedPoints |-> gainedPoints,
         newCellVisited |-> newCellVisited,
         lastCellId |-> cellId]

\* mutant: a step of exactly 3 m counts as movement
handleLocationUpdate_NoiseInclusive(prevState, newLocation) ==
    LET hasLast == prevState.lastLocation # NoLoc
        dist == IF hasLast
                THEN haversineDistance(prevState.lastLocation, newLocation)
                ELSE 0
        moved == hasLast /\ dist >= NoiseThresholdDm
        gainedDistance == IF moved THEN dist ELSE 0
        movePoints == IF moved THEN MovementPoints(dist) ELSE 0
        cellId == latLngToCell(newLocation)
        alreadyHad == cellId \in prevState.visitedCells
        newCellVisited == ~alreadyHad
        gainedPoints == movePoints + (IF newCellVisited THEN CellBonus ELSE 0)
    IN  [state |-> [lastLocation |-> newLocation,
                    totalDistanceMeters |->
                        prevState.totalDistanceMeters + gainedDistance,
                    points |-> prevState.points + gainedPoints,
                    visitedCells |->
                        IF newCellVisited
                        THEN prevState.visitedCells \cup {cellId}
                        ELSE prevState.visitedCells],
         gainedDistance |-> gainedDistance,
         gainedPoints |-> gainedPoints,
         newCellVisited |-> newCellVisited,
         lastCellId |-> cellId]

\* mutant: a noise-filtered fix does not move lastLocation
handleLocationUpdate_KeepAnchor(prevState, newLocation) ==
    LET hasLast == prevState.lastLocation # NoLoc
        dist == IF hasLast
                THEN haversineDistance(prevState.lastLocation, newLocation)
                ELSE 0
        moved == hasLast /\ dist > NoiseThresholdDm
        gainedDistance == IF moved THEN dist ELSE 0
        movePoints == IF moved THEN MovementPoints(dist) ELSE 0
        cellId == latLngToCell(newLocation)
        newCellVisited == cellId \notin prevState.visitedCells
        gainedPoints == movePoints + (IF newCellVisited THEN CellBonus ELSE 0)
    IN  [state |-> [lastLocation |->
                        IF hasLast /\ ~moved
                        THEN prevState.lastLocation
                        ELSE newLocation,
                    totalDistanceMeters |->
                        prevState.totalDistanceMeters + gainedDistance,
                    points |-> prevState.points + gainedPoints,
                    visitedCells |->
                        IF newCellVisited
                        THEN prevState.visitedCells \cup {cellId}
                        ELSE prevState.visitedCells],
         gainedDistance |-> gainedDistance,
         gainedPoints |-> gainedPoints,
         newCellVisited |-> newCellVisited,
         lastCellId |-> cellId]

handleLocationUpdate(prevState, newLocation) ==
    LET hasLast == prevState.lastLocation # NoLoc
        dist == IF hasLast
                THEN haversineDistance(prevState.lastLocation, newLocation)
                ELSE 0
        moved == hasLast /\ dist > NoiseThresholdDm
        gainedDistance == IF moved THEN dist ELSE 0
        movePoints == IF moved THEN MovementPoints(dist) ELSE 0
        cellId == latLngToCell(newLocation)
        alreadyHad == cellId \in prevState.visitedCells
        newCellVisited == ~alreadyHad
        gainedPoints == movePoints + (IF newCellVisited THEN CellBonus ELSE 0)
    IN  [state |-> [lastLocation |-> newLocation,
                    totalDistanceMeters |->
                        prevState.totalDistanceMeters + gainedDistance,
                    points |-> prevState.points + gainedPoints,
                    visitedCells |->
                        IF newCellVisited
                        THEN prevState.visitedCells \cup {cellId}
                        ELSE prevState.visitedCells],
         gainedDistance |-> gainedDistance,
         gainedPoints |-> gainedPoints,
         newCellVisited |-> newCellVisited,
         lastCellId |-> cellId]

-----------------------------------------------------------------------------
(* The quests (collection imageQuests) and the identity's document.        *)

\* questId -> ImageQuest.  q1 and q2 have a reference image (imageMB: its
\* encoded size in MB); q3 has none.  From the origin: q1 is 0 m away (radius
\* 50), q2 is 23.3 m away (radius 30), q3 is 1.5 m away (radius 20).
Quests ==
    [q1 |-> [location |-> At(0, 0),   questRadius |-> 50, score |-> 100,
             hasImageUrl |-> TRUE, imageMB |-> 2],
     q2 |-> [location |-> At(0, 300), questRadius |-> 30, score |-> 50,
             hasImageUrl |-> TRUE, imageMB |-> 7],
     q3 |-> [location |-> At(0, 20),  questRadius |-> 20, score |-> 30,
             hasImageUrl |-> FALSE, imageMB |-> 0]]

QuestIds == DOMAIN Quests

\* the order in which getAllImageQuests returns the quests
AllQuestsOrder == <<"q1", "q2", "q3">>

\* a client document with no quest solved and no score
EmptyClientDoc == [imageQuestSolvedIds |-> {}, accumulatedScore |-> 0]

RECURSIVE SumScores(_)
SumScores(ids) ==
    IF ids = {} THEN 0
    ELSE LET q == CHOOSE x \in ids : TRUE
         IN  Quests[q].score + SumScores(ids \ {q})

-----------------------------------------------------------------------------
(* utils/firebase/imageQuest.ts: markQuestAsSolved *)

\* updateDoc(clientRef, {imageQuestSolvedIds: arrayUnion(questId),
\*                       accumulatedScore: increment(pointsEarned)})
\* as the store applies it: one atomic write of both fields.
markQuestAsSolved(doc, questId, pointsEarned) ==
    [imageQuestSolvedIds |-> doc.imageQuestSolvedIds \cup {questId},
     accumulatedScore |-> doc.accumulatedScore + pointsEarned]

-----------------------------------------------------------------------------
(* utils/gemini.ts: the rate limiter and the retry policy *)

MIN_DELAY_BETWEEN_CALLS_MS == 4000

MAX_INLINE_REQUEST_SIZE_MB == 18

\* compareImages calls retryWithBackoff(fn, 2, 10000)
MaxRetries == 2

BaseDelay == 10000

\* `20000 * Math.pow(3, attempt)`
RateLimitBaseDelay == 20000

RECURSIVE Pow(_, _)
Pow(b, e) == IF e = 0 THEN 1 ELSE b * Pow(b, e - 1)

\* An error thrown by the oracle call is its message, and the code looks at
\* the message only through message.includes('400'), ('404'), ('429'),
\* ('500'), ('503'): the model keeps the set of those substrings it holds.
IsNonRetryable(message) == "400" \in message \/ "404" \in message

IsRateLimit(message) == "429" \in message

\* mutant: sleeps for the time elapsed instead of the time remaining
RateLimitWaitTime_Elapsed(t, last) ==
    LET timeSinceLastCall == t - last
    IN  IF timeSinceLastCall < MIN_DELAY_BETWEEN_CALLS_MS
        THEN timeSinceLastCall
        ELSE 0

\* waitForRateLimit: the time it sleeps when called at time t

RateLimitWaitTime(t, last) ==
    LET timeSinceLastCall == t - last
    IN  IF timeSinceLastCall < MIN_DELAY_BETWEEN_CALLS_MS
        THEN MIN_DELAY_BETWEEN_CALLS_MS - timeSinceLastCall
        ELSE 0

\* mutant: 400/404 are retried like any other error
RetryAfterError_RetryAll(message, attempt) ==
    IF attempt < MaxRetries - 1
    THEN [do |-> "sleep",
          delay |-> IF IsRateLimit(message)
                    THEN RateLimitBaseDelay * Pow(3, attempt)
                    ELSE BaseDelay * Pow(2, attempt)]
    ELSE [do |-> "next", delay |-> 0]

\* retryWithBackoff's catch block, for the error of loop index `attempt`:
\* throw it, sleep `delay` and go round the loop, or go round the loop at once
RetryAfterError(message, attempt) ==
    IF IsNonRetryable(message)
    THEN [do |-> "throw", delay |-> 0]
    ELSE IF IsRateLimit(message)
    THEN IF attempt < MaxRetries - 1
         THEN [do |-> "sleep", delay |-> RateLimitBaseDelay * Pow(3, attempt)]
         ELSE [do |-> "next", delay |-> 0]
    ELSE IF attempt < MaxRetries - 1
         THEN [do |-> "sleep", delay |-> BaseDelay * Pow(2, attempt)]
         ELSE [do |-> "next", delay |-> 0]

-----------------------------------------------------------------------------
(* utils/firebase/imageQuest.ts: findMatchingQuest, the pure parts *)

CONFIDENCE_THRESHOLD == 90

NoMatch == [none |-> TRUE]

\* `distance <= quest.questRadius`, the radius in metres, the distance in decimetres
\* mutant: a quest at exactly its radius is out of range
InRadius_Strict(userLocation, q) ==
    haversineDistance(userLocation, Quests[q].location) < Quests[q].questRadius * 10

InRadius(userLocation, q) ==
    haversineDistance(userLocation, Quests[q].location) <= Quests[q].questRadius * 10

nearbyQuests(userLocation) ==
    LET Near(q) == InRadius(userLocation, q)
    IN  SelectSeq(AllQuestsOrder, Near)

\* mutant: the solved quests are not filtered out
unsolvedQuests_NoFilter(nearby, solvedQuestIds) == nearby

unsolvedQuests(nearby, solvedQuestIds) ==
    LET Unsolved(q) == q \notin solvedQuestIds
    IN  SelectSeq(nearby, Unsolved)

\* mutant: the threshold is compared with > instead of >=
IsNewBestMatch_StrictThreshold(bestMatch, comparisonResult) ==
    /\ comparisonResult.isMatch
    /\ comparisonResult.confidence > CONFIDENCE_THRESHOLD
    /\ (bestMatch = NoMatch \/ comparisonResult.confidence > bestMatch.result.confidence)

\* mutant: a later candidate with the same confidence replaces the best match
IsNewBestMatch_TiesTakeLast(bestMatch, comparisonResult) ==
    /\ comparisonResult.isMatch
    /\ comparisonResult.confidence >= CONFIDENCE_THRESHOLD
    /\ (bestMatch = NoMatch \/ comparisonResult.confidence >= bestMatch.result.confidence)

\* the condition under which the loop replaces bestMatch
IsNewBestMatch(bestMatch, comparisonResult) ==
    /\ comparisonResult.isMatch
    /\ comparisonResult.confidence >= CONFIDENCE_THRESHOLD
    /\ (bestMatch = NoMatch \/ comparisonResult.confidence > bestMatch.result.confidence)

\* the loop's `if (!quest.imageUrl) continue`: the first index from i on whose
\* quest has a reference image, Len + 1 when there is none
RECURSIVE SkipNoImage(_, _)
SkipNoImage(quests, i) ==
    IF i > Len(quests) THEN i
    ELSE IF Quests[quests[i]].hasImageUrl THEN i
    ELSE SkipNoImage(quests, i + 1)

-----------------------------------------------------------------------------
(* domain/tracking/sync.ts: syncBatchToFirebase *)

NoUser == "none"

Uids == {"A", "B"}

\* Math.round of a number of points kept in hundredths (never negative here)
MathRound(hundredths) == (hundredths + 50) \div 100

NoWrite == [none |-> TRUE]

\* syncBatchToFirebase(clientId, cellIds, gainedPoints): NoWrite when it
\* returns before setDoc, else the setDoc(clientRef, data, {merge: true}) it
\* issues.  data.accumulatedScore = increment(roundedPoints) is left out when
\* roundedPoints is 0, data.mapGridIds = arrayUnion(...cellIds) when cellIds
\* is empty.
syncBatchToFirebase(clientId, cellIds, gainedPoints) ==
    IF clientId = NoUser THEN NoWrite
    ELSE IF Len(cellIds) = 0 /\ gainedPoints <= 0 THEN NoWrite
    ELSE [clientId |-> clientId,
          roundedPoints |-> MathRound(gainedPoints),
          mapGridIds |-> {cellIds[i] : i \in DOMAIN cellIds},
          cellIds |-> cellIds,
          gainedPoints |-> gainedPoints]

\* the store applies setDoc(..., {merge: true}): the document is created when
\* missing, the score incremented, the cell ids united
ApplySetDoc(doc, write) ==
    [exists |-> TRUE,
     mapGridIds |-> doc.mapGridIds \cup write.mapGridIds,
     accumulatedScore |-> doc.accumulatedScore + write.roundedPoints]

NoDoc == [exists |-> FALSE, mapGridIds |-> {}, accumulatedScore |-> 0]

-----------------------------------------------------------------------------
(* utils/tracking/TrackingContext.tsx: the pure parts *)

\* `[...new Set(pendingCellsRef.current)]`: first occurrences, in order
Dedup(seq) ==
    LET firsts == {i \in DOMAIN seq : \A j \in 1..(i - 1) : seq[j] # seq[i]}
        nth(k) == CHOOSE i \in firsts : Cardinality({j \in firsts : j <= i}) = k
    IN  [k \in 1..Cardinality(firsts) |-> seq[nth(k)]]

\* `pendingCellsRef.current.length >= 10`
AutoFlushThreshold == 10

\* mutant: the threshold is compared with > instead of >=
AutoFlushDue_OffByOne(pendingCells) == Len(pendingCells) > AutoFlushThreshold

AutoFlushDue(pendingCells) == Len(pendingCells) >= AutoFlushThreshold

\* loadFromBackend's setTrackingState updater
MergeLoaded(prev, mapGridIds, accumulatedScore) ==
    [lastLocation |-> NoLoc, totalDistanceMeters |-> 0,
     points |-> accumulatedScore * 100,
     visitedCells |-> prev.visitedCells \cup mapGridIds]

-----------------------------------------------------------------------------
(* The state of each part before anything has run.  Every specification    *)
(* below runs one part and leaves the others in this state.                *)

AdvanceIdle ==
    /\ trackingState = createInitialTrackingState
    /\ lastResult = NoResult
    /\ fixCount = 0
    /\ bonusCalls = 0
    /\ fixCells = {}
    /\ fixWalk = <<>>
    /\ stateBefore = createInitialTrackingState
    /\ gridPoint = NoLoc
    /\ gridCellId = <<>>
    /\ gridCenter = NoLoc
    /\ gridPolygon = <<>>

CommitIdle ==
    /\ clientDoc = EmptyClientDoc
    /\ commitLog = <<>>

\* The provider is mounted with nobody signed in and the app in the
\* foreground; no client document exists yet.
\* the provider after construction, whatever the store holds
TrackStart ==
    /\ user = NoUser
    /\ clientIdRef = NoUser
    /\ lastLoadedUserIdRef = NoUser
    /\ pendingCellsRef = <<>>
    /\ pendingPointsRef = 0
    /\ appState = "active"
    /\ loads = {}
    /\ syncLog = <<>>
    /\ position = 0
    /\ userChanges = 0
    /\ flushRequests = 0
    /\ run = -1
    /\ runFlushes = 0
    /\ bufferedCells = 0
    /\ bufferedPoints = 0

\* no identity has a client document yet
TrackIdle ==
    /\ TrackStart
    /\ storeDocs = [u \in Uids |-> NoDoc]

\* the submitQuestImage calls the model runs
Attempts == {1, 2}

\* Date.now() when the model starts.  lastApiCallTime starts at 0 and the
\* clock is far beyond MIN_DELAY_BETWEEN_CALLS_MS, so the first call of a
\* process never waits.
StartTime == MIN_DELAY_BETWEEN_CALLS_MS

IdleAttempt ==
    [pc |-> "idle", userLocation |-> NoLoc, userImageMB |-> 0,
     unsolvedQuests |-> <<>>, idx |-> 0, attempt |-> 0, bestMatch |-> NoMatch,
     wakeAt |-> 0, outcome |-> "none", submit |-> "none", reasoning |-> "none",
     solvedQuestIds |-> {},                 \* findMatchingQuest's local
     \* what findMatchingQuest returned: quest and comparisonResult
     quest |-> "none", isMatch |-> FALSE, confidence |-> 0,
     pointsEarned |-> 0,    \* submitQuestImage's local
     commit |-> "none",     \* what the store did with markQuestAsSolved's updateDoc
     \* what the attempt has seen, kept for the properties
     results |-> <<>>,      \* [questId, result] of every comparison that returned
     nCalls |-> 0,          \* oracle calls of the current comparison
     totalCalls |-> 0,      \* oracle calls of the whole attempt
     errors |-> <<>>,       \* messages of its failed oracle calls
     waits |-> <<>>,        \* backoff delays slept in it
     cmpEnd |-> "none",     \* how the last finished comparison ended
     failures |-> 0,        \* comparisons that ended without a result
     lastCallAt |-> 0, prevCallAt |-> 0]   \* starts of its last two oracle calls

MatchIdle ==
    /\ now = StartTime
    /\ lastApiCallTime = 0
    /\ prevApiCallTime = 0
    /\ attempts = [p \in Attempts |-> IdleAttempt]

-----------------------------------------------------------------------------
(* SpecCommit: markQuestAsSolved called directly, any quest, any number of *)
(* times up to MaxCommits; each call's updateDoc is applied or fails.      *)

\* number of markQuestAsSolved calls in one run
MaxCommits == 4

CommitInit ==
    /\ AdvanceIdle
    /\ CommitIdle
    /\ MatchIdle
    /\ TrackIdle

\* markQuestAsSolved(clientId, questId, quest.score) is called: updateDoc is sent
CallMarkQuestAsSolved(q) ==
    /\ Len(commitLog) < MaxCommits
    /\ commitLog' = Append(commitLog,
           [questId |-> q, pointsEarned |-> Quests[q].score, state |-> "sent"])
    /\ UNCHANGED <<clientDoc, advVars, matchVars, trackVars>>

\* the store applies the update and the call returns
UpdateDocApplied(i) ==
    /\ commitLog[i].state = "sent"
    /\ clientDoc' = markQuestAsSolved(clientDoc, commitLog[i].questId,
                                      commitLog[i].pointsEarned)
    /\ commitLog' = [commitLog EXCEPT ![i].state = "ok"]
    /\ UNCHANGED <<advVars, matchVars, trackVars>>

\* the store call fails: markQuestAsSolved throws, nothing is written
UpdateDocFailed(i) ==
    /\ commitLog[i].state = "sent"
    /\ commitLog' = [commitLog EXCEPT ![i].state = "error"]
    /\ UNCHANGED <<clientDoc, advVars, matchVars, trackVars>>

CommitNext ==
    \/ \E q \in QuestIds : CallMarkQuestAsSolved(q)
    \/ \E i \in DOMAIN commitLog : UpdateDocApplied(i)
    \/ \E i \in DOMAIN commitLog : UpdateDocFailed(i)

SpecCommit == CommitInit /\ [][CommitNext]_vars

\* the quests whose commit has succeeded at least once
CommittedOk == {commitLog[i].questId : i \in {j \in DOMAIN commitLog : commitLog[j].state = "ok"}}

\* C2: however many times a quest id has been committed, accumulatedScore
\* has grown by that quest's score exactly once: the score is the sum of the
\* scores of the quests committed successfully.
C2_ScoreOncePerQuest == clientDoc.accumulatedScore = SumScores(CommittedOk)

-----------------------------------------------------------------------------
(* SpecAdvance: handleLocationUpdate folded over a sequence of fixes,      *)
(* starting from createInitialTrackingState.                               *)

\* number of fixes folded in one run
MaxFixes == 5

\* Fixes around the origin: the origin itself, 1.5 m east of it (noise),
\* 3.0 m and 3.1 m east (the two sides of the noise threshold), 23 m east
\* (same cell), 54 m east (next cell east), 8 m west (next cell west), 56 m
\* north (next cell north), and 56 m north + 1.5 m east.
AdvanceFixes ==
    {At(0, 0), At(0, 20), At(0, 39), At(0, 40), At(0, 300), At(0, 700),
     At(0, -100), At(500, 0), At(500, 20)}

AdvanceInit ==
    /\ AdvanceIdle
    /\ CommitIdle
    /\ MatchIdle
    /\ TrackIdle

Advance(loc) ==
    /\ fixCount < MaxFixes
    /\ LET result == handleLocationUpdate(trackingState, loc)
       IN  /\ trackingState' = result.state
           /\ lastResult' = result
           /\ bonusCalls' = bonusCalls + (IF result.newCellVisited THEN 1 ELSE 0)
    /\ fixCount' = fixCount + 1
    /\ fixCells' = fixCells \cup {latLngToCell(loc)}
    /\ fixWalk' = Append(fixWalk, loc)
    /\ stateBefore' = trackingState
    /\ UNCHANGED <<gridVars, commitVars, matchVars, trackVars>>

AdvanceNext == \E loc \in AdvanceFixes : Advance(loc)

SpecAdvance == AdvanceInit /\ [][AdvanceNext]_vars

\* C1: the number of handleLocationUpdate calls that returned newCellVisited
\* (each adding the flat +50 bonus) equals the number of distinct cells among
\* the fixes folded so far.
C1_BonusOncePerCell == bonusCalls = Cardinality(fixCells)

\* C1 witness: five fixes over two cells, so three of them revisit a cell.
C1_Witness ==
    /\ fixCount = MaxFixes
    /\ Cardinality(fixCells) = 2
    /\ bonusCalls = 2
    /\ trackingState.points >= 2 * CellBonus

\* the distance handleLocationUpdate measured in the last call
LastStep == haversineDistance(stateBefore.lastLocation, trackingState.lastLocation)

\* C16: a call with the location that the previous call just folded gains no
\* distance and no points, visits no new cell, and leaves points,
\* totalDistanceMeters and visitedCells as they were.
C16_SameLocationTwice ==
    (/\ lastResult # NoResult
     /\ stateBefore.lastLocation # NoLoc
     /\ trackingState.lastLocation = stateBefore.lastLocation) =>
        /\ lastResult.gainedDistance = 0
        /\ lastResult.gainedPoints = 0
        /\ ~lastResult.newCellVisited
        /\ trackingState.points = stateBefore.points
        /\ trackingState.totalDistanceMeters = stateBefore.totalDistanceMeters
        /\ trackingState.visitedCells = stateBefore.visitedCells

\* C16 witness: after a walk that earned distance and points, the last call
\* repeated the location of the call before it.
C16_Witness ==
    /\ fixCount >= 3
    /\ stateBefore.lastLocation # NoLoc
    /\ trackingState.lastLocation = stateBefore.lastLocation
    /\ stateBefore.totalDistanceMeters > 0
    /\ lastResult.gainedPoints = 0

\* C17: with d the distance from lastLocation to the new fix: without a
\* lastLocation, or with d <= 3 m, the call gains no distance and no movement
\* points; with d > 3 m it gains d, totalDistanceMeters grows by d and the
\* movement points are 0.1 * d (gainedPoints less the cell bonus).
C17_NoiseThreshold ==
    lastResult # NoResult =>
        LET bonus == IF lastResult.newCellVisited THEN CellBonus ELSE 0
            movement == lastResult.gainedPoints - bonus
        IN  IF stateBefore.lastLocation = NoLoc \/ LastStep <= NoiseThresholdDm
            THEN /\ lastResult.gainedDistance = 0
                 /\ movement = 0
                 /\ trackingState.totalDistanceMeters = stateBefore.totalDistanceMeters
            ELSE /\ lastResult.gainedDistance = LastStep
                 /\ movement = LastStep
                 /\ trackingState.totalDistanceMeters =
                        stateBefore.totalDistanceMeters + LastStep

\* C17 witness: the last step was exactly 3 m long and counted as noise.
C17_Witness ==
    /\ lastResult # NoResult
    /\ stateBefore.lastLocation # NoLoc
    /\ LastStep = NoiseThresholdDm
    /\ lastResult.gainedDistance = 0
    /\ lastResult.gainedPoints = 0

\* every step of the walk folded so far was at most 3 m long
OnlyNoiseSteps ==
    \A i \in 2..Len(fixWalk) :
        haversineDistance(fixWalk[i - 1], fixWalk[i]) <= NoiseThresholdDm

\* C32: after every call lastLocation is the fix of that call, noise-filtered
\* or not; a walk whose steps are all at most 3 m long has accrued no
\* totalDistanceMeters and no movement points (its points are the cell
\* bonuses alone), however far from its start it has come.
C32_NoiseWalkAccruesNothing ==
    fixWalk # <<>> =>
        /\ trackingState.lastLocation = fixWalk[Len(fixWalk)]
        /\ OnlyNoiseSteps =>
              /\ trackingState.totalDistanceMeters = 0
              /\ trackingState.points =
                     CellBonus * Cardinality(trackingState.visitedCells)

\* C32 witness: a walk of steps of at most 3 m that ends further than 3 m
\* from where it started, with no distance accrued.
C32_Witness ==
    /\ Len(fixWalk) >= 3
    /\ OnlyNoiseSteps
    /\ haversineDistance(fixWalk[1], fixWalk[Len(fixWalk)]) > NoiseThresholdDm
    /\ trackingState.lastLocation = fixWalk[Len(fixWalk)]
    /\ trackingState.totalDistanceMeters = 0

\* C39: in every state reached by handleLocationUpdate calls alone, points
\* are 0.1 per metre of totalDistanceMeters (one hundredth of a point per
\* decimetre) plus 50 per visited cell, and no call lowers points,
\* totalDistanceMeters or visitedCells.
C39_PointsAreDistancePlusCells ==
    /\ trackingState.points =
           trackingState.totalDistanceMeters
               + 5000 * Cardinality(trackingState.visitedCells)
    /\ lastResult # NoResult =>
           /\ trackingState.points >= stateBefore.points
           /\ trackingState.totalDistanceMeters >= stateBefore.totalDistanceMeters
           /\ stateBefore.visitedCells \subseteq trackingState.visitedCells

\* C39 witness: a walk that earned both movement points and more than one
\* cell bonus, and whose last call earned nothing.
C39_Witness ==
    /\ trackingState.totalDistanceMeters > 0
    /\ Cardinality(trackingState.visitedCells) >= 2
    /\ lastResult # NoResult
    /\ lastResult.gainedPoints = 0
    /\ trackingState.points = stateBefore.points

-----------------------------------------------------------------------------
(* The match attempt: submitQuestImage -> findMatchingQuest ->             *)
(* compareImages -> retryWithBackoff -> waitForRateLimit, then             *)
(* markQuestAsSolved.  JavaScript runs each stretch of code between two    *)
(* awaits without interruption, so each action is one such stretch.        *)

\* the clock's step
TickMs == MIN_DELAY_BETWEEN_CALLS_MS \div 2

\* what an oracle call can come back with: a parsed ComparisonResult, a
\* response without JSON, or an error (the substrings its message holds)
Result(isMatch, confidence) ==
    [kind |-> "result", isMatch |-> isMatch, confidence |-> confidence,
     reasoning |-> "oracle"]

OracleError(message) == [kind |-> "error", message |-> message]

NoJson == [kind |-> "nojson"]

\* mutant: the points are the oracle's confidence
PointsEarned_Confidence(quest, comparisonResult) == comparisonResult.confidence

\* submitQuestImage: const pointsEarned = quest.score
PointsEarned(quest, comparisonResult) == Quests[quest].score

\* findMatchingQuest returns without a quest
ReturnNoQuest(a, outcome, reasoning) ==
    [a EXCEPT !.pc = "done", !.outcome = outcome, !.submit = "failure",
              !.reasoning = reasoning,
              !.quest = "null", !.isMatch = FALSE, !.confidence = 0]

\* The loop goes on from index i of unsolvedQuests: to the next quest that
\* has a reference image, or out of the loop, where findMatchingQuest returns
\* and, on a match, submitQuestImage calls markQuestAsSolved (updateDoc sent).
ContinueLoop(a, i) ==
    LET j == SkipNoImage(a.unsolvedQuests, i)
    IN  IF j <= Len(a.unsolvedQuests)
        THEN [a EXCEPT !.pc = "preparing", !.idx = j, !.attempt = 0]
        ELSE IF a.bestMatch = NoMatch
        THEN ReturnNoQuest([a EXCEPT !.idx = j], "no-match", "default-no-match")
        ELSE [a EXCEPT !.pc = "committing", !.idx = j, !.outcome = "match",
                       !.reasoning = a.bestMatch.result.reasoning,
                       !.quest = a.bestMatch.quest,
                       !.isMatch = a.bestMatch.result.isMatch,
                       !.confidence = a.bestMatch.result.confidence,
                       !.pointsEarned = PointsEarned(a.bestMatch.quest,
                                                     a.bestMatch.result)]

\* mutant: a comparison that fails ends the whole attempt with an error
EndComparison_FailFast(a, how) ==
    IF how = "result"
    THEN ContinueLoop([a EXCEPT !.cmpEnd = how], a.idx + 1)
    ELSE [a EXCEPT !.pc = "done", !.outcome = "error", !.submit = "error",
                   !.cmpEnd = how, !.failures = @ + 1]

\* the comparison with the current quest is over (returned or thrown)
EndComparison(a, how) ==
    ContinueLoop([a EXCEPT !.cmpEnd = how,
                           !.failures = @ + (IF how = "result" THEN 0 ELSE 1)],
                 a.idx + 1)

\* fn() is called: the oracle call starts at time t
StartOracleCall(a, t) ==
    [a EXCEPT !.pc = "calling", !.nCalls = @ + 1, !.totalCalls = @ + 1,
              !.prevCallAt = a.lastCallAt, !.lastCallAt = t]

\* waitForRateLimit is called by p (whose record so far is a): it sleeps, or
\* it sets lastApiCallTime and returns, and retryWithBackoff calls fn()
WaitForRateLimit(p, a) ==
    LET waitTime == RateLimitWaitTime(now, lastApiCallTime)
    IN  IF waitTime > 0
        THEN /\ attempts' = [attempts EXCEPT
                    ![p] = [a EXCEPT !.pc = "rateWait", !.wakeAt = now + waitTime]]
             /\ UNCHANGED <<lastApiCallTime, prevApiCallTime>>
        ELSE /\ attempts' = [attempts EXCEPT ![p] = StartOracleCall(a, now)]
             /\ prevApiCallTime' = lastApiCallTime
             /\ lastApiCallTime' = now

\* submitQuestImage(userImageUri, userLocation, clientId) is called
SubmitQuestImage(p, userLocation, userImageMB) ==
    /\ attempts[p].pc = "idle"
    /\ attempts' = [attempts EXCEPT ![p] =
           [@ EXCEPT !.pc = "selecting", !.userLocation = userLocation,
                     !.userImageMB = userImageMB]]
    /\ UNCHANGED <<now, lastApiCallTime, prevApiCallTime, clientDoc>>

\* getAllImageQuests and getDoc(clientRef) have answered: candidate selection
SelectCandidates(p) ==
    LET a == attempts[p]
        nearby == nearbyQuests(a.userLocation)
        unsolved == unsolvedQuests(nearby, clientDoc.imageQuestSolvedIds)
    IN  /\ a.pc = "selecting"
        /\ attempts' = [attempts EXCEPT ![p] =
               IF nearby = <<>>
               THEN ReturnNoQuest(a, "no-candidates", "none-in-range")
               ELSE IF unsolved = <<>>
               THEN ReturnNoQuest([a EXCEPT !.solvedQuestIds =
                                       clientDoc.imageQuestSolvedIds],
                                  "no-candidates", "all-solved")
               ELSE ContinueLoop([a EXCEPT !.solvedQuestIds =
                                      clientDoc.imageQuestSolvedIds,
                                           !.unsolvedQuests = unsolved], 1)]
        /\ UNCHANGED <<now, lastApiCallTime, prevApiCallTime, clientDoc>>

\* getAllImageQuests or getDoc fails: findMatchingQuest and submitQuestImage throw
SelectCandidatesFailed(p) ==
    /\ attempts[p].pc = "selecting"
    /\ attempts' = [attempts EXCEPT ![p] =
           [@ EXCEPT !.pc = "done", !.outcome = "error", !.submit = "error"]]
    /\ UNCHANGED <<now, lastApiCallTime, prevApiCallTime, clientDoc>>

\* compareImages: both images are encoded; the size check; then
\* retryWithBackoff's first round calls waitForRateLimit
PrepareImages(p) ==
    LET a == attempts[p]
        q == a.unsolvedQuests[a.idx]
        totalSizeMB == Quests[q].imageMB + a.userImageMB
        fresh == [a EXCEPT !.nCalls = 0, !.errors = <<>>, !.waits = <<>>,
                           !.cmpEnd = "running"]
    IN  /\ a.pc = "preparing"
        /\ IF totalSizeMB > MAX_INLINE_REQUEST_SIZE_MB
           THEN /\ attempts' = [attempts EXCEPT ![p] = EndComparison(fresh, "tooLarge")]
                /\ UNCHANGED <<lastApiCallTime, prevApiCallTime>>
           ELSE WaitForRateLimit(p, fresh)
        /\ UNCHANGED <<now, clientDoc>>

\* imageToBase64 or downloadImageToBase64 throws: the comparison is over
PrepareImagesFailed(p) ==
    LET a == attempts[p]
        fresh == [a EXCEPT !.nCalls = 0, !.errors = <<>>, !.waits = <<>>,
                           !.cmpEnd = "running"]
    IN  /\ a.pc = "preparing"
        /\ attempts' = [attempts EXCEPT ![p] = EndComparison(fresh, "encodeError")]
        /\ UNCHANGED <<now, lastApiCallTime, prevApiCallTime, clientDoc>>

\* the timer of waitForRateLimit fires: lastApiCallTime = Date.now(), then fn()
RateLimitWaitOver(p) ==
    /\ attempts[p].pc = "rateWait"
    /\ now >= attempts[p].wakeAt
    /\ attempts' = [attempts EXCEPT ![p] = StartOracleCall(@, now)]
    /\ prevApiCallTime' = lastApiCallTime
    /\ lastApiCallTime' = now
    /\ UNCHANGED <<now, clientDoc>>

\* the oracle call returns a response with a ComparisonResult in it
OracleReturns(p, result) ==
    LET a == attempts[p]
        q == a.unsolvedQuests[a.idx]
        seen == [a EXCEPT !.results = Append(@, [questId |-> q, result |-> result])]
        kept == IF IsNewBestMatch(a.bestMatch, result)
                THEN [seen EXCEPT !.bestMatch = [quest |-> q, result |-> result]]
                ELSE seen
    IN  /\ a.pc = "calling"
        /\ attempts' = [attempts EXCEPT ![p] = EndComparison(kept, "result")]
        /\ UNCHANGED <<now, lastApiCallTime, prevApiCallTime, clientDoc>>

\* the oracle call returns a response without JSON: compareImages throws
OracleReturnsNoJson(p) ==
    /\ attempts[p].pc = "calling"
    /\ attempts' = [attempts EXCEPT ![p] = EndComparison(@, "nojson")]
    /\ UNCHANGED <<now, lastApiCallTime, prevApiCallTime, clientDoc>>

\* the oracle call throws: retryWithBackoff's catch block
OracleThrows(p, message) ==
    LET a == attempts[p]
        failed == [a EXCEPT !.errors = Append(@, message)]
        then == RetryAfterError(message, a.attempt)
    IN  /\ a.pc = "calling"
        /\ attempts' = [attempts EXCEPT ![p] =
               CASE then.do = "throw" -> EndComparison(failed, "thrown")
                 [] then.do = "sleep" ->
                        [failed EXCEPT !.pc = "backoff", !.wakeAt = now + then.delay,
                                       !.waits = Append(@, then.delay)]
                 [] then.do = "next" ->
                        \* attempt++ ends the loop: throw lastError
                        EndComparison([failed EXCEPT !.attempt = @ + 1], "exhausted")]
        /\ UNCHANGED <<now, lastApiCallTime, prevApiCallTime, clientDoc>>

\* mutant: the backoff timer fires and the same round of the loop is run again
BackoffOver_SameRound(p) ==
    /\ attempts[p].pc = "backoff"
    /\ now >= attempts[p].wakeAt
    /\ WaitForRateLimit(p, attempts[p])
    /\ UNCHANGED <<now, clientDoc>>

\* the backoff timer fires: attempt++, and the next round of the loop, if
\* there is one, calls waitForRateLimit
BackoffOver(p) ==
    LET a == attempts[p]
        next == [a EXCEPT !.attempt = @ + 1]
    IN  /\ a.pc = "backoff"
        /\ now >= a.wakeAt
        /\ IF next.attempt < MaxRetries
           THEN WaitForRateLimit(p, next)
           ELSE /\ attempts' = [attempts EXCEPT ![p] = EndComparison(next, "exhausted")]
                /\ UNCHANGED <<lastApiCallTime, prevApiCallTime>>
        /\ UNCHANGED <<now, clientDoc>>

\* mutant: the commit is two store writes, the quest id first and the score
\* after it
CommitApplied_TwoWrites(p) ==
    LET a == attempts[p]
        quest == a.bestMatch.quest
    IN  /\ a.pc = "committing"
        /\ IF a.commit = "none"
           THEN /\ clientDoc' = markQuestAsSolved(clientDoc, quest, 0)
                /\ attempts' = [attempts EXCEPT ![p] = [a EXCEPT !.commit = "half"]]
           ELSE /\ clientDoc' = [clientDoc EXCEPT
                                    !.accumulatedScore = @ + a.pointsEarned]
                /\ attempts' = [attempts EXCEPT ![p] =
                       [a EXCEPT !.pc = "done", !.submit = "success",
                                 !.commit = "applied"]]
        /\ UNCHANGED <<now, lastApiCallTime, prevApiCallTime>>

\* the store applies markQuestAsSolved's updateDoc; submitQuestImage returns
CommitApplied(p) ==
    LET a == attempts[p]
        quest == a.bestMatch.quest
    IN  /\ a.pc = "committing"
        /\ clientDoc' = markQuestAsSolved(clientDoc, quest, a.pointsEarned)
        /\ attempts' = [attempts EXCEPT ![p] =
               [a EXCEPT !.pc = "done", !.submit = "success", !.commit = "applied"]]
        /\ UNCHANGED <<now, lastApiCallTime, prevApiCallTime>>

\* mutant: the failed updateDoc has added the quest id without the score
CommitFailed_PartialWrite(p) ==
    /\ attempts[p].pc = "committing"
    /\ attempts' = [attempts EXCEPT ![p] =
           [@ EXCEPT !.pc = "done", !.submit = "error", !.commit = "failed"]]
    /\ clientDoc' = markQuestAsSolved(clientDoc, attempts[p].bestMatch.quest, 0)
    /\ UNCHANGED <<now, lastApiCallTime, prevApiCallTime>>

\* updateDoc fails: markQuestAsSolved and submitQuestImage throw
CommitFailed(p) ==
    /\ attempts[p].pc = "committing"
    /\ attempts' = [attempts EXCEPT ![p] =
           [@ EXCEPT !.pc = "done", !.submit = "error", !.commit = "failed"]]
    /\ UNCHANGED <<now, lastApiCallTime, prevApiCallTime, clientDoc>>

\* Time passes.  The clock is stepped only while it can be read again with
\* another result: while an attempt is running, or while a call made now
\* would still have to wait.
Tick(maxTicks) ==
    /\ now < StartTime + maxTicks * TickMs
    /\ \/ \E p \in Attempts : attempts[p].pc \notin {"idle", "done"}
       \/ now - lastApiCallTime < MIN_DELAY_BETWEEN_CALLS_MS
    /\ now' = now + TickMs
    /\ UNCHANGED <<lastApiCallTime, prevApiCallTime, attempts, clientDoc>>

-----------------------------------------------------------------------------
(* SpecMatch: one match attempt at a time, with every oracle outcome.      *)

\* the clock stops this many ticks after StartTime
MatchTicks == 12

Confidences == {89, 90, 95}

OracleResults == {Result(m, c) : m \in BOOLEAN, c \in Confidences}

\* bad request, not found, rate-limited, server error, unknown
ErrorMessages == {{"400"}, {"404"}, {"429"}, {"500"}, {}}

\* where the photo is taken: at the origin (q1, q2, q3 in range), 51 m east
\* (q1 is 51.2 m away, out of its radius of 50; q2 is 27.9 m away, in range),
\* 56 m north (nothing in range), 50.0 m north (q1 at exactly its radius)
UserLocations == {At(0, 0), At(0, 660), At(500, 0), At(450, 0)}

\* encoded size of the user's photo, MB
UserImageSizes == {1, 12}

\* the identity's solved quests when the attempt starts
InitiallySolved == {{}, {"q1"}, {"q1", "q2"}}

MatchInit ==
    /\ AdvanceIdle
    /\ MatchIdle
    /\ TrackIdle
    /\ commitLog = <<>>
    /\ \E solved \in InitiallySolved :
           clientDoc = [imageQuestSolvedIds |-> solved,
                        accumulatedScore |-> SumScores(solved)]

MatchNext ==
    /\ \/ \E loc \in UserLocations, mb \in UserImageSizes : SubmitQuestImage(1, loc, mb)
       \/ SelectCandidates(1)
       \/ SelectCandidatesFailed(1)
       \/ PrepareImages(1)
       \/ PrepareImagesFailed(1)
       \/ RateLimitWaitOver(1)
       \/ \E r \in OracleResults : OracleReturns(1, r)
       \/ OracleReturnsNoJson(1)
       \/ \E m \in ErrorMessages : OracleThrows(1, m)
       \/ BackoffOver(1)
       \/ CommitApplied(1)
       \/ CommitFailed(1)
       \/ Tick(MatchTicks)
    /\ UNCHANGED <<advVars, commitLog, trackVars>>

SpecMatch == MatchInit /\ [][MatchNext]_vars

\* C4: the attempt's outcome is "match" exactly when some comparison returned
\* a result with isMatch = true and confidence >= 90; with a single candidate,
\* isMatch = true with confidence 89 gives "no-match" and with 90 gives "match".
C4_MatchIffQualified ==
    \A p \in Attempts :
        LET a == attempts[p]
        IN  a.outcome # "none" =>
                /\ a.outcome = "match" <=>
                       \E i \in DOMAIN a.results :
                           /\ a.results[i].result.isMatch
                           /\ a.results[i].result.confidence >= 90
                /\ \A c \in {89, 90} :
                       (/\ Len(a.unsolvedQuests) = 1
                        /\ Len(a.results) = 1
                        /\ a.results[1].result = Result(TRUE, c))
                       => a.outcome = (IF c = 90 THEN "match" ELSE "no-match")

\* C4 witness: q2 is the single candidate, the oracle answered isMatch = true
\* with confidence exactly 90, and the attempt ended "match".
C4_Witness ==
    /\ attempts[1].unsolvedQuests = <<"q2">>
    /\ attempts[1].results = <<[questId |-> "q2", result |-> Result(TRUE, 90)]>>
    /\ attempts[1].outcome = "match"

\* C6: within one match attempt, two consecutive oracle calls (a retry after
\* a failed call, or the call for the next candidate) start at least 4000 ms apart.
C6_AttemptCallsApart ==
    \A p \in Attempts :
        attempts[p].prevCallAt > 0 =>
            attempts[p].lastCallAt - attempts[p].prevCallAt >= 4000

\* C6 witness: the call for the second candidate, made exactly 4000 ms after
\* the call for the first one returned a result.
C6_Witness ==
    /\ attempts[1].pc = "calling"
    /\ Len(attempts[1].results) = 1
    /\ attempts[1].idx = 2
    /\ attempts[1].prevCallAt > 0
    /\ attempts[1].lastCallAt - attempts[1].prevCallAt = 4000

\* C7: a comparison that ends because every oracle call failed with a
\* retryable error has made exactly 3 oracle calls.
C7_ThreeAttempts ==
    \A p \in Attempts :
        attempts[p].cmpEnd = "exhausted" => attempts[p].nCalls = 3

\* C8: an oracle call that fails with a client error (400 or 404) is the last
\* call of its comparison: the error is thrown at once, no backoff is slept
\* after it, and when it is the first call the comparison made one call.
C8_ClientErrorNotRetried ==
    \A p \in Attempts :
        LET a == attempts[p]
        IN  \A i \in DOMAIN a.errors :
                ("400" \in a.errors[i] \/ "404" \in a.errors[i]) =>
                    /\ i = Len(a.errors)
                    /\ a.nCalls = i
                    /\ Len(a.waits) = i - 1
                    /\ a.cmpEnd = "thrown"
                    /\ a.pc \notin {"backoff", "rateWait", "calling"}

\* C8 witness: the first oracle call of a comparison failed with 404 and the
\* comparison ended there.
C8_Witness ==
    /\ attempts[1].errors = <<{"404"}>>
    /\ attempts[1].nCalls = 1
    /\ attempts[1].waits = <<>>
    /\ attempts[1].cmpEnd = "thrown"

\* C9: a comparison whose calls all failed with retryable errors slept, before
\* retry k (k = 1, 2), 20 s * 3^(k-1) after a 429 and 10 s * 2^(k-1) after
\* any other error.
C9_BackoffBeforeEachRetry ==
    \A p \in Attempts :
        LET a == attempts[p]
        IN  a.cmpEnd = "exhausted" =>
                /\ Len(a.waits) = 2
                /\ \A k \in 1..2 :
                       a.waits[k] = IF "429" \in a.errors[k]
                                    THEN 20000 * Pow(3, k - 1)
                                    ELSE 10000 * Pow(2, k - 1)

\* a comparison result that qualifies as a match
Qualifies(result) == result.isMatch /\ result.confidence >= CONFIDENCE_THRESHOLD

\* C18: when no quest is within its radius of the user, or every quest in
\* range is in the solved list read from the identity's document, the attempt
\* ends "no-candidates": returned (not thrown) with quest = null, isMatch =
\* false, confidence = 0 and a reason, with no oracle call and no commit.
C18_NoCandidates ==
    \A p \in Attempts :
        LET a == attempts[p]
            nearby == nearbyQuests(a.userLocation)
        IN  (/\ a.pc \notin {"idle", "selecting"}
             /\ a.outcome # "error"
             /\ \/ nearby = <<>>
                \/ \A i \in DOMAIN nearby : nearby[i] \in a.solvedQuestIds) =>
                /\ a.pc = "done"
                /\ a.outcome = "no-candidates"
                /\ a.submit = "failure"
                /\ a.quest = "null"
                /\ ~a.isMatch
                /\ a.confidence = 0
                /\ a.reasoning = (IF nearby = <<>> THEN "none-in-range" ELSE "all-solved")
                /\ a.lastCallAt = 0
                /\ a.results = <<>>
                /\ a.failures = 0

\* C18 witness: the only quest in range of the user (q2) is already solved.
C18_Witness ==
    /\ attempts[1].pc = "done"
    /\ nearbyQuests(attempts[1].userLocation) = <<"q2">>
    /\ "q2" \in attempts[1].solvedQuestIds
    /\ attempts[1].outcome = "no-candidates"
    /\ attempts[1].reasoning = "all-solved"

\* C19: a comparison that fails ends that candidate only.  When the loop is
\* over every candidate with a reference image has been compared, whatever
\* happened to the ones before it; a qualifying result gives "match" also
\* after earlier failures; and when no comparison returned a result the
\* attempt is a returned "no-match", not an error.
C19_FailureEndsCandidateOnly ==
    \A p \in Attempts :
        LET a == attempts[p]
            withImage == {i \in DOMAIN a.unsolvedQuests :
                              Quests[a.unsolvedQuests[i]].hasImageUrl}
        IN  (a.pc \in {"done", "committing"} /\ a.unsolvedQuests # <<>>) =>
                /\ Len(a.results) + a.failures = Cardinality(withImage)
                /\ (\E i \in DOMAIN a.results : Qualifies(a.results[i].result))
                       => a.outcome = "match"
                /\ a.results = <<>> =>
                       /\ a.outcome = "no-match"
                       /\ a.submit = "failure"
                       /\ a.quest = "null"

\* C19 witness: the comparison with q1 failed, q2 was still compared and
\* matched.
C19_Witness ==
    /\ attempts[1].unsolvedQuests = <<"q1", "q2", "q3">>
    /\ attempts[1].failures = 1
    /\ attempts[1].results = <<[questId |-> "q2", result |-> Result(TRUE, 95)]>>
    /\ attempts[1].outcome = "match"
    /\ attempts[1].quest = "q2"

\* C20: the quest returned by a match is the qualifying candidate with the
\* highest confidence, and among several with that confidence the one that
\* was compared first.
C20_HighestConfidenceFirstWins ==
    \A p \in Attempts :
        LET a == attempts[p]
            Q == {i \in DOMAIN a.results : Qualifies(a.results[i].result)}
            conf(i) == a.results[i].result.confidence
        IN  a.outcome = "match" =>
                \E i \in Q :
                    /\ \A j \in Q : conf(j) < conf(i) \/ (conf(j) = conf(i) /\ i <= j)
                    /\ a.quest = a.results[i].questId
                    /\ a.confidence = conf(i)

\* C20 witness: q1 and q2 both matched with confidence 95; q1, compared
\* first, is returned.
C20_Witness ==
    /\ attempts[1].results = <<[questId |-> "q1", result |-> Result(TRUE, 95)],
                               [questId |-> "q2", result |-> Result(TRUE, 95)]>>
    /\ attempts[1].outcome = "match"
    /\ attempts[1].quest = "q1"

\* C21: the step in which the store applies the commit of a match adds the
\* matched quest's id to the identity's solved set and raises accumulatedScore
\* by exactly that quest's score, whatever the oracle's confidence was, and
\* submitQuestImage then reports success with pointsEarned equal to that score.
C21_CommitAddsQuestScore ==
    [][\A p \in Attempts :
           (attempts[p].commit = "none" /\ attempts'[p].commit = "applied") =>
               LET a == attempts'[p]
               IN  /\ a.outcome = "match"
                   /\ a.quest \in clientDoc'.imageQuestSolvedIds
                   /\ clientDoc'.imageQuestSolvedIds =
                          clientDoc.imageQuestSolvedIds \cup {a.quest}
                   /\ clientDoc'.accumulatedScore =
                          clientDoc.accumulatedScore + Quests[a.quest].score
                   /\ a.submit = "success"
                   /\ a.pointsEarned = Quests[a.quest].score]_vars

\* C21 witness: q2 (score 50) matched with confidence 95 while q1 was already
\* solved, and the commit was applied.
C21_Witness ==
    /\ attempts[1].commit = "applied"
    /\ attempts[1].quest = "q2"
    /\ attempts[1].confidence = 95
    /\ clientDoc = [imageQuestSolvedIds |-> {"q1", "q2"}, accumulatedScore |-> 150]

\* C22: the step in which the commit's store call fails leaves the identity's
\* solved set and accumulatedScore as they were, and submitQuestImage ends
\* with an error, not with a result.
C22_FailedCommitChangesNothing ==
    [][\A p \in Attempts :
           (attempts[p].commit = "none" /\ attempts'[p].commit = "failed") =>
               /\ clientDoc' = clientDoc
               /\ attempts'[p].submit = "error"]_vars

\* C22 witness: q1 matched, the commit failed, the document is the initial one.
C22_Witness ==
    /\ attempts[1].commit = "failed"
    /\ attempts[1].outcome = "match"
    /\ attempts[1].quest = "q1"
    /\ attempts[1].submit = "error"
    /\ clientDoc = EmptyClientDoc

\* C25: a match attempt in which the user image and the reference image of
\* a candidate together exceed 18 MB makes no oracle call for that candidate
\* and ends with an error, without going on to the other candidates.
C25_TooLargeRejectsAttempt ==
    \A p \in Attempts :
        LET a == attempts[p]
            tooLarge == {i \in DOMAIN a.unsolvedQuests :
                            /\ Quests[a.unsolvedQuests[i]].hasImageUrl
                            /\ Quests[a.unsolvedQuests[i]].imageMB + a.userImageMB
                                   > MAX_INLINE_REQUEST_SIZE_MB}
        IN  (a.pc \in {"done", "committing"} /\ tooLarge # {}) =>
                /\ \A i \in tooLarge, k \in DOMAIN a.results :
                       a.results[k].questId # a.unsolvedQuests[i]
                /\ a.outcome = "error"
                /\ a.submit = "error"

\* C29: a "no-match" outcome carries the reasoning of an oracle result when
\* some comparison returned one, and the default message only when none did.
C29_NoMatchCarriesOracleReasoning ==
    \A p \in Attempts :
        LET a == attempts[p]
        IN  a.outcome = "no-match" =>
                IF a.results = <<>>
                THEN a.reasoning = "default-no-match"
                ELSE \E i \in DOMAIN a.results :
                         a.reasoning = a.results[i].result.reasoning

\* the quests the attempt has called the oracle for
CalledQuests(a) ==
    {a.results[i].questId : i \in DOMAIN a.results}
        \cup (IF a.pc \in {"calling", "backoff"} THEN {a.unsolvedQuests[a.idx]} ELSE {})

\* C30: every quest the oracle is called for is within its own radius of the
\* user's location, is not in the solved list read at candidate selection and
\* has a reference image; and a quest at exactly its radius that is not
\* solved is among the candidates.
C30_OracleOnlyForCandidates ==
    \A p \in Attempts :
        LET a == attempts[p]
            dist(q) == haversineDistance(a.userLocation, Quests[q].location)
        IN  /\ \A q \in CalledQuests(a) :
                   /\ dist(q) <= Quests[q].questRadius * 10
                   /\ q \notin a.solvedQuestIds
                   /\ Quests[q].hasImageUrl
            /\ \A q \in QuestIds :
                   (/\ a.pc \notin {"idle", "selecting"}
                    /\ a.outcome # "error"
                    /\ dist(q) = Quests[q].questRadius * 10
                    /\ q \notin a.solvedQuestIds)
                   => \E i \in DOMAIN a.unsolvedQuests : a.unsolvedQuests[i] = q

\* C30 witness: the photo is taken exactly 50.0 m from q1, whose radius is
\* 50, and the oracle is being called for q1.
C30_Witness ==
    /\ attempts[1].userLocation = At(450, 0)
    /\ haversineDistance(At(450, 0), Quests["q1"].location) = 500
    /\ attempts[1].pc = "calling"
    /\ attempts[1].unsolvedQuests[attempts[1].idx] = "q1"

\* C34: the store's client document changes only in the step in which the
\* commit of a matched attempt is applied, and that step adds the quest id
\* and the quest's score together; so in every state, also one in which the
\* process stops in the middle of an attempt, the score in the store is the
\* sum of the scores of the quest ids in the solved set.
C34_CommitIsOneAtomicWrite ==
    /\ [](clientDoc.accumulatedScore = SumScores(clientDoc.imageQuestSolvedIds))
    /\ [][clientDoc' # clientDoc =>
            \E p \in Attempts :
                LET quest == attempts[p].bestMatch.quest
                IN  /\ attempts[p].pc = "committing"
                    /\ attempts'[p].commit = "applied"
                    /\ quest \notin clientDoc.imageQuestSolvedIds
                    /\ clientDoc'.imageQuestSolvedIds =
                           clientDoc.imageQuestSolvedIds \cup {quest}
                    /\ clientDoc'.accumulatedScore =
                           clientDoc.accumulatedScore + Quests[quest].score]_vars

\* C34 witness: q1 was solved before; the attempt matched q2 and its commit
\* was applied: the store holds both ids and both scores.
C34_Witness ==
    /\ attempts[1].solvedQuestIds = {"q1"}
    /\ attempts[1].commit = "applied"
    /\ attempts[1].bestMatch.quest = "q2"
    /\ clientDoc.imageQuestSolvedIds = {"q1", "q2"}
    /\ clientDoc.accumulatedScore = Quests["q1"].score + Quests["q2"].score

-----------------------------------------------------------------------------
(* SpecMatchLive: one match attempt in which every call that was made is   *)
(* answered and every timer that was set fires when it is due.  The        *)
(* attempt reads the clock only to sleep, so the clock is stepped only     *)
(* while it sleeps.                                                        *)

\* the clock stops this many ticks after StartTime: two comparisons that
\* each sleep 20 s after a 429, and the 4 s between them
LiveTicks == 22

LiveLocations == {At(0, 0), At(0, 660), At(500, 0)}

LiveResults == {Result(TRUE, 95), Result(FALSE, 95)}

LiveErrors == {{"400"}, {"429"}, {"500"}}

LiveInit ==
    /\ AdvanceIdle
    /\ CommitIdle
    /\ MatchIdle
    /\ TrackIdle

\* the steps that follow when what the attempt waits for happens
LiveAnswers ==
    /\ \/ SelectCandidates(1)
       \/ SelectCandidatesFailed(1)
       \/ PrepareImages(1)
       \/ PrepareImagesFailed(1)
       \/ RateLimitWaitOver(1)
       \/ \E r \in LiveResults : OracleReturns(1, r)
       \/ OracleReturnsNoJson(1)
       \/ \E m \in LiveErrors : OracleThrows(1, m)
       \/ BackoffOver(1)
       \/ CommitApplied(1)
       \/ CommitFailed(1)
       \/ /\ attempts[1].pc \in {"rateWait", "backoff"}
          /\ now < attempts[1].wakeAt
          /\ Tick(LiveTicks)
    /\ UNCHANGED <<advVars, commitLog, trackVars>>

LiveNext ==
    \/ /\ \E loc \in LiveLocations : SubmitQuestImage(1, loc, 1)
       /\ UNCHANGED <<advVars, commitLog, trackVars>>
    \/ LiveAnswers

SpecMatchLive == LiveInit /\ [][LiveNext]_vars /\ WF_vars(LiveAnswers)

\* what submitQuestImage's caller sees of a finished attempt
TerminalOutcome(a) == IF a.submit = "error" THEN "error" ELSE a.outcome

\* the candidates of the attempt that have a reference image
ComparedCandidates(a) ==
    {i \in DOMAIN a.unsolvedQuests : Quests[a.unsolvedQuests[i]].hasImageUrl}

\* C31: a match attempt that was started ends, in one of the outcomes match,
\* no-candidates, no-match or error, and it never makes more oracle calls
\* than its candidates times the calls retryWithBackoff makes per comparison.
C31_AttemptTerminates ==
    /\ [](\A p \in Attempts :
              LET a == attempts[p]
              IN  /\ a.totalCalls <= Cardinality(ComparedCandidates(a)) * MaxRetries
                  /\ a.pc = "done" =>
                         TerminalOutcome(a) \in
                             {"match", "no-candidates", "no-match", "error"})
    /\ (attempts[1].pc # "idle") ~> (attempts[1].pc = "done")

\* C31 witness: both candidates were called twice, every call failed, and
\* the attempt ended "no-match" after four oracle calls.
C31_Witness ==
    /\ attempts[1].pc = "done"
    /\ Cardinality(ComparedCandidates(attempts[1])) = 2
    /\ attempts[1].totalCalls = 2 * MaxRetries
    /\ TerminalOutcome(attempts[1]) = "no-match"

-----------------------------------------------------------------------------
(* SpecRace: two match attempts of the same identity running at once.      *)

\* the clock stops this many ticks after StartTime
RaceTicks == 6

RaceResults == {Result(TRUE, 95), Result(FALSE, 95)}

RaceErrors == {{"500"}}

RaceInit ==
    /\ AdvanceIdle
    /\ CommitIdle
    /\ MatchIdle
    /\ TrackIdle

RaceNext ==
    /\ \E p \in Attempts :
           \/ SubmitQuestImage(p, At(0, 0), 1)
           \/ SelectCandidates(p)
           \/ SelectCandidatesFailed(p)
           \/ PrepareImages(p)
           \/ PrepareImagesFailed(p)
           \/ RateLimitWaitOver(p)
           \/ \E r \in RaceResults : OracleReturns(p, r)
           \/ OracleReturnsNoJson(p)
           \/ \E m \in RaceErrors : OracleThrows(p, m)
           \/ BackoffOver(p)
           \/ CommitApplied(p)
           \/ CommitFailed(p)
           \/ Tick(RaceTicks)
    /\ UNCHANGED <<advVars, commitLog, trackVars>>

SpecRace == RaceInit /\ [][RaceNext]_vars

\* C3: when both attempts matched the same quest and both commits succeeded,
\* accumulatedScore has grown by that quest's score once.
C3_RaceScoresOnce ==
    (/\ \A p \in Attempts : attempts[p].submit = "success"
     /\ attempts[1].bestMatch.quest = attempts[2].bestMatch.quest)
    => clientDoc.accumulatedScore = Quests[attempts[1].bestMatch.quest].score

\* C5: no two oracle calls of the process, whichever attempts make them,
\* start less than 4000 ms apart.
C5_AllCallsApart ==
    prevApiCallTime > 0 => lastApiCallTime - prevApiCallTime >= 4000


-----------------------------------------------------------------------------
(* utils/tracking/TrackingContext.tsx: TrackingProvider.  One action per  *)
(* effect, listener or callback; a store call is issued inside the action *)
(* that makes it and answered by a later action.                          *)

trackRest ==
    <<fixCount, bonusCalls, fixCells, fixWalk, stateBefore, gridVars, commitVars, matchVars>>

bufferTotals == <<bufferedCells, bufferedPoints>>

\* the setDoc that syncBatchToFirebase issues, if any, joins the log; session
\* tells during which sign-in (counted by userChanges) it was issued
Issue(log, write) ==
    IF write = NoWrite
    THEN log
    ELSE Append(log, [write |-> write, state |-> "sent", session |-> userChanges])

\* mutant: whatever is in the buffer, also nothing, is written with setDoc
flushBuffer_AlwaysSend ==
    IF clientIdRef = NoUser
    THEN [cells |-> pendingCellsRef, points |-> pendingPointsRef, log |-> syncLog]
    ELSE [cells |-> <<>>, points |-> 0,
          log |-> Append(syncLog,
                     [write |-> [clientId |-> clientIdRef,
                                 roundedPoints |-> MathRound(pendingPointsRef),
                                 mapGridIds |-> {pendingCellsRef[i] : i \in DOMAIN pendingCellsRef},
                                 cellIds |-> Dedup(pendingCellsRef),
                                 gainedPoints |-> pendingPointsRef],
                      state |-> "sent", session |-> userChanges])]

\* mutant: the snapshot is sent but the buffer is not cleared
flushBuffer_NoClear ==
    IF (Len(pendingCellsRef) = 0 /\ pendingPointsRef = 0) \/ clientIdRef = NoUser
    THEN [cells |-> pendingCellsRef, points |-> pendingPointsRef, log |-> syncLog]
    ELSE [cells |-> pendingCellsRef, points |-> pendingPointsRef,
          log |-> Issue(syncLog, syncBatchToFirebase(clientIdRef,
                            Dedup(pendingCellsRef), pendingPointsRef))]

\* mutant: the buffer is cleared before clientIdRef is looked at
flushBuffer_ClearWithoutClient ==
    IF Len(pendingCellsRef) = 0 /\ pendingPointsRef = 0
    THEN [cells |-> pendingCellsRef, points |-> pendingPointsRef, log |-> syncLog]
    ELSE IF clientIdRef = NoUser
    THEN [cells |-> <<>>, points |-> 0, log |-> syncLog]
    ELSE [cells |-> <<>>, points |-> 0,
          log |-> Issue(syncLog, syncBatchToFirebase(clientIdRef,
                            Dedup(pendingCellsRef), pendingPointsRef))]

\* flushBuffer(): the buffer and the store calls after it has run
flushBuffer ==
    IF Len(pendingCellsRef) = 0 /\ pendingPointsRef = 0
    THEN [cells |-> pendingCellsRef, points |-> pendingPointsRef, log |-> syncLog]
    ELSE IF clientIdRef = NoUser
    THEN [cells |-> pendingCellsRef, points |-> pendingPointsRef, log |-> syncLog]
    ELSE [cells |-> <<>>, points |-> 0,
          log |-> Issue(syncLog, syncBatchToFirebase(clientIdRef,
                            Dedup(pendingCellsRef), pendingPointsRef))]

\* mutant: when another uid signs in the tracking state is reset but the
\* buffer is left as it is
UserChanged_KeepBuffer(u) ==
    /\ u # user
    /\ user' = u
    /\ clientIdRef' = u
    /\ userChanges' = userChanges + 1
    /\ IF u = NoUser
       THEN /\ lastLoadedUserIdRef' = NoUser
            /\ pendingCellsRef' = <<>>
            /\ pendingPointsRef' = 0
            /\ trackingState' = createInitialTrackingState
            /\ loads' = loads
            /\ bufferedCells' = 0
            /\ bufferedPoints' = 0
       ELSE IF lastLoadedUserIdRef # u
       THEN /\ lastLoadedUserIdRef' = u
            /\ UNCHANGED <<pendingCellsRef, pendingPointsRef>>
            /\ trackingState' = createInitialTrackingState
            /\ loads' = loads \cup {[uid |-> u, id |-> userChanges, read |-> FALSE, snap |-> NoDoc]}
            /\ bufferedCells' = 0
            /\ bufferedPoints' = 0
       ELSE UNCHANGED <<lastLoadedUserIdRef, pendingCellsRef, pendingPointsRef,
                        trackingState, loads, bufferTotals>>
    /\ run' = -1
    /\ runFlushes' = 0
    /\ UNCHANGED <<lastResult, appState, storeDocs, syncLog, position,
                   flushRequests, trackRest>>

\* the two effects on [user]: clientIdRef follows the user; a sign-out resets
\* the local state, another uid resets it and starts loadFromBackend
UserChanged(u) ==
    /\ u # user
    /\ user' = u
    /\ clientIdRef' = u
    /\ userChanges' = userChanges + 1
    /\ IF u = NoUser
       THEN /\ lastLoadedUserIdRef' = NoUser
            /\ pendingCellsRef' = <<>>
            /\ pendingPointsRef' = 0
            /\ trackingState' = createInitialTrackingState
            /\ loads' = loads
            /\ bufferedCells' = 0
            /\ bufferedPoints' = 0
       ELSE IF lastLoadedUserIdRef # u
       THEN /\ lastLoadedUserIdRef' = u
            /\ pendingCellsRef' = <<>>
            /\ pendingPointsRef' = 0
            /\ trackingState' = createInitialTrackingState
            /\ loads' = loads \cup {[uid |-> u, id |-> userChanges, read |-> FALSE, snap |-> NoDoc]}
            /\ bufferedCells' = 0
            /\ bufferedPoints' = 0
       ELSE UNCHANGED <<lastLoadedUserIdRef, pendingCellsRef, pendingPointsRef,
                        trackingState, loads, bufferTotals>>
    /\ run' = -1
    /\ runFlushes' = 0
    /\ UNCHANGED <<lastResult, appState, storeDocs, syncLog, position,
                   flushRequests, trackRest>>

\* loadFromBackend: the store reads the client document for getDoc
LoadRead(l) ==
    /\ l \in loads
    /\ ~l.read
    /\ loads' = (loads \ {l}) \cup {[l EXCEPT !.read = TRUE, !.snap = storeDocs[l.uid]]}
    /\ UNCHANGED <<advVars, user, clientIdRef, lastLoadedUserIdRef, pendingCellsRef,
                   pendingPointsRef, appState, storeDocs, syncLog, position,
                   userChanges, flushRequests, run, runFlushes, bufferTotals, commitVars, matchVars>>

\* loadFromBackend: getDoc resolves; a missing document changes nothing, an
\* existing one is merged into the tracking state
LoadDelivered(l) ==
    /\ l \in loads
    /\ l.read
    /\ loads' = loads \ {l}
    /\ trackingState' =
           IF l.snap.exists
           THEN MergeLoaded(trackingState, l.snap.mapGridIds, l.snap.accumulatedScore)
           ELSE trackingState
    /\ UNCHANGED <<lastResult, user, clientIdRef, lastLoadedUserIdRef, pendingCellsRef,
                   pendingPointsRef, appState, storeDocs, syncLog, position,
                   userChanges, flushRequests, run, runFlushes, bufferTotals, trackRest>>

\* loadFromBackend: getDoc rejects; the error is logged
LoadFailed(l) ==
    /\ l \in loads
    /\ loads' = loads \ {l}
    /\ UNCHANGED <<advVars, user, clientIdRef, lastLoadedUserIdRef, pendingCellsRef,
                   pendingPointsRef, appState, storeDocs, syncLog, position,
                   userChanges, flushRequests, run, runFlushes, bufferTotals, commitVars, matchVars>>

\* a consumer of the context calls flushBuffer()
FlushBufferCalled ==
    /\ pendingCellsRef' = flushBuffer.cells
    /\ pendingPointsRef' = flushBuffer.points
    /\ syncLog' = flushBuffer.log
    /\ flushRequests' = flushRequests + 1
    /\ run' = -1
    /\ runFlushes' = 0
    /\ UNCHANGED <<advVars, user, clientIdRef, lastLoadedUserIdRef, appState, loads,
                   storeDocs, position, userChanges, bufferTotals, commitVars, matchVars>>

\* the AppState "change" listener: active -> background flushes the buffer
AppStateChanged(nextState) ==
    /\ nextState # appState
    /\ IF appState = "active" /\ nextState = "background"
       THEN /\ pendingCellsRef' = flushBuffer.cells
            /\ pendingPointsRef' = flushBuffer.points
            /\ syncLog' = flushBuffer.log
            /\ flushRequests' = flushRequests + 1
            /\ run' = -1
            /\ runFlushes' = 0
       ELSE UNCHANGED <<pendingCellsRef, pendingPointsRef, syncLog, flushRequests,
                        run, runFlushes>>
    /\ appState' = nextState
    /\ UNCHANGED <<advVars, user, clientIdRef, lastLoadedUserIdRef, loads,
                   storeDocs, position, userChanges, bufferTotals, commitVars, matchVars>>

\* onLocationUpdate, after handleLocationUpdate: the new cell and the points
\* join the buffer, which is flushed at once when it holds AutoFlushThreshold
\* cells and somebody is signed in.  buffered = <<cells, points>> after the
\* fix joined.
BufferFix(result, buffered) ==
    LET auto == AutoFlushDue(buffered[1]) /\ clientIdRef # NoUser
        fresh == /\ Len(pendingCellsRef) = 0
                 /\ pendingPointsRef = 0
                 /\ clientIdRef # NoUser
        base == IF fresh THEN 0 ELSE run
    IN  /\ trackingState' = result.state
        /\ lastResult' = result
        /\ pendingCellsRef' = IF auto THEN <<>> ELSE buffered[1]
        /\ pendingPointsRef' = IF auto THEN 0 ELSE buffered[2]
        /\ syncLog' = IF auto
                      THEN Issue(syncLog, syncBatchToFirebase(clientIdRef,
                                     Dedup(buffered[1]), buffered[2]))
                      ELSE syncLog
        /\ run' = IF base >= 0 /\ result.newCellVisited THEN base + 1 ELSE -1
        /\ runFlushes' = (IF fresh THEN 0 ELSE runFlushes)
                         + (IF auto /\ syncLog' # syncLog THEN 1 ELSE 0)
        /\ bufferedCells' = bufferedCells + Len(buffered[1]) - Len(pendingCellsRef)
        /\ bufferedPoints' = bufferedPoints + result.gainedPoints
        /\ UNCHANGED <<user, clientIdRef, lastLoadedUserIdRef, appState, loads,
                       storeDocs, userChanges, flushRequests, trackRest>>

\* mutant: the cell of every fix is pushed, new or not, buffered or not
JoinBuffer_AlwaysPush(result) ==
    <<Append(pendingCellsRef, result.lastCellId),
      pendingPointsRef + result.gainedPoints>>

\* the buffer after the fix joined it
JoinBuffer(result) ==
    <<IF /\ result.newCellVisited
         /\ \A i \in DOMAIN pendingCellsRef : pendingCellsRef[i] # result.lastCellId
      THEN Append(pendingCellsRef, result.lastCellId)
      ELSE pendingCellsRef,
      pendingPointsRef + result.gainedPoints>>

FoldFix(result) == BufferFix(result, JoinBuffer(result))

\* mutant: a fix delivered while a store call or a match attempt is in
\* flight is dropped
OnLocationUpdate_DropWhenBusy(newLoc) ==
    IF \/ \E i \in DOMAIN syncLog : syncLog[i].state = "sent"
       \/ \E p \in Attempts : attempts[p].pc \notin {"idle", "done"}
    THEN UNCHANGED <<trackingState, lastResult, pendingCellsRef, pendingPointsRef,
                     syncLog, run, runFlushes, bufferTotals, user, clientIdRef,
                     lastLoadedUserIdRef, appState, loads, storeDocs, userChanges,
                     flushRequests, trackRest>>
    ELSE FoldFix(handleLocationUpdate(trackingState, newLoc))

\* onLocationUpdate(newLoc): the state updater
OnLocationUpdate(newLoc) == FoldFix(handleLocationUpdate(trackingState, newLoc))

\* the store applies a setDoc and syncBatchToFirebase resolves
SetDocApplied(i) ==
    /\ i \in DOMAIN syncLog
    /\ syncLog[i].state = "sent"
    /\ storeDocs' = [storeDocs EXCEPT ![syncLog[i].write.clientId] =
                         ApplySetDoc(@, syncLog[i].write)]
    /\ syncLog' = [syncLog EXCEPT ![i].state = "ok"]
    /\ UNCHANGED <<advVars, user, clientIdRef, lastLoadedUserIdRef, pendingCellsRef,
                   pendingPointsRef, appState, loads, position, userChanges,
                   flushRequests, run, runFlushes, bufferTotals, commitVars, matchVars>>

\* mutant: a rejected setDoc puts its batch back into the buffer
SetDocFailed_Restore(i) ==
    /\ i \in DOMAIN syncLog
    /\ syncLog[i].state = "sent"
    /\ syncLog' = [syncLog EXCEPT ![i].state = "error"]
    /\ pendingCellsRef' = syncLog[i].write.cellIds \o pendingCellsRef
    /\ pendingPointsRef' = syncLog[i].write.gainedPoints + pendingPointsRef
    /\ UNCHANGED <<advVars, user, clientIdRef, lastLoadedUserIdRef,
                   appState, loads, storeDocs, position,
                   userChanges, flushRequests, run, runFlushes, bufferTotals, commitVars, matchVars>>

\* setDoc rejects: the caller's catch logs the error, the batch is gone
SetDocFailed(i) ==
    /\ i \in DOMAIN syncLog
    /\ syncLog[i].state = "sent"
    /\ syncLog' = [syncLog EXCEPT ![i].state = "error"]
    /\ UNCHANGED <<advVars, user, clientIdRef, lastLoadedUserIdRef, pendingCellsRef,
                   pendingPointsRef, appState, loads, storeDocs, position,
                   userChanges, flushRequests, run, runFlushes, bufferTotals, commitVars, matchVars>>

-----------------------------------------------------------------------------
(* SpecWalk: one user signs in and out while the device walks east along a *)
(* street, one grid cell per step or standing still; the app goes to the   *)
(* background and returns; every store call succeeds or fails.             *)

\* the street has the cells 0 .. WalkLast
WalkLast == 10

\* sign-ins, sign-outs and flushBuffer calls (by a consumer or by the
\* app-state listener) in one run
WalkEvents == 2

WalkEventLeft == userChanges + flushRequests < WalkEvents

\* the fix the device reports in cell i of the street (about its middle)
WalkPoint(i) == At(0, 320 + 644 * i)

WalkInit ==
    /\ AdvanceIdle
    /\ CommitIdle
    /\ MatchIdle
    /\ TrackIdle

\* map.tsx: the watchPositionAsync callback reports where the device is now
GpsFix(p) ==
    /\ p \in 0..WalkLast
    /\ position' = p
    /\ OnLocationUpdate(WalkPoint(p))

WalkNext ==
    \/ \E p \in {position, position + 1} : GpsFix(p)
    \/ \E u \in {NoUser, "A"} : WalkEventLeft /\ UserChanged(u)
    \/ \E l \in loads : LoadRead(l)
    \/ \E l \in loads : LoadDelivered(l)
    \/ \E l \in loads : LoadFailed(l)
    \/ WalkEventLeft /\ FlushBufferCalled
    \/ \E nextState \in {"active", "inactive", "background"} :
          /\ (appState = "active" /\ nextState = "background")
                 => WalkEventLeft
          /\ AppStateChanged(nextState)
    \/ \E i \in DOMAIN syncLog : SetDocApplied(i)
    \/ \E i \in DOMAIN syncLog : SetDocFailed(i)

SpecWalk == WalkInit /\ [][WalkNext]_vars

\* C10: when AutoFlushThreshold fixes in a row have each entered a new cell,
\* starting from an empty buffer with somebody signed in and with no explicit
\* flush in between, exactly one setDoc has been issued, by the last of these
\* fixes, and the buffer is empty again with no pending points.
C10_AutoFlushAtThreshold ==
    /\ (run >= 1 /\ run < AutoFlushThreshold) =>
           /\ runFlushes = 0
           /\ Len(pendingCellsRef) = run
    /\ run >= AutoFlushThreshold =>
           /\ run = AutoFlushThreshold
           /\ runFlushes = 1
           /\ pendingCellsRef = <<>>
           /\ pendingPointsRef = 0
           /\ syncLog # <<>>
           /\ Len(syncLog[Len(syncLog)].write.cellIds) = AutoFlushThreshold

C10_Witness ==
    /\ run = AutoFlushThreshold
    /\ runFlushes = 1
    /\ user = "A"

\* the setDoc calls issued since the last identity change
SessionWrites ==
    LET InSession(e) == e.session = userChanges
    IN  SelectSeq(syncLog, InSession)

RECURSIVE SentCells(_)
SentCells(log) ==
    IF log = <<>> THEN 0 ELSE Len(Head(log).write.cellIds) + SentCells(Tail(log))

RECURSIVE SentPoints(_)
SentPoints(log) ==
    IF log = <<>> THEN 0 ELSE Head(log).write.gainedPoints + SentPoints(Tail(log))

\* C11: whatever the interleaving of size-triggered, background and manual
\* flushes with fixes, each cell id and each point that joined the buffer is
\* in exactly one place, one store call or the buffer: the calls of a session
\* and the buffer together hold what was buffered, no two calls carry the same
\* cell id, and no call carries a cell id that is still in the buffer.
C11_PendingSentOnce ==
    LET mine == SessionWrites
    IN  /\ SentCells(mine) + Len(pendingCellsRef) = bufferedCells
        /\ SentPoints(mine) + pendingPointsRef = bufferedPoints
        /\ \A i, j \in DOMAIN mine :
               i # j => mine[i].write.mapGridIds \cap mine[j].write.mapGridIds = {}
        /\ \A i \in DOMAIN mine : \A k \in DOMAIN pendingCellsRef :
               pendingCellsRef[k] \notin mine[i].write.mapGridIds

\* C11 witness: in one session a requested flush and a size-triggered flush
\* have both been issued, and together they carried the eleven buffered cells.
C11_Witness ==
    /\ Len(SessionWrites) = 2
    /\ \E i \in DOMAIN SessionWrites :
           Len(SessionWrites[i].write.cellIds) = AutoFlushThreshold
    /\ flushRequests = 1
    /\ bufferedCells = AutoFlushThreshold + 1

\* C12: a step that issues a store call leaves the buffer empty (the snapshot
\* was taken and the buffer cleared before the call went out), and a step in
\* which a store call is answered, with success or with failure, does not
\* touch the buffer: the snapshot is never put back.
C12_ClearedBeforeStoreCall ==
    [][/\ Len(syncLog') > Len(syncLog) =>
             /\ pendingCellsRef' = <<>>
             /\ pendingPointsRef' = 0
       /\ (\E i \in DOMAIN syncLog :
               syncLog[i].state = "sent" /\ syncLog'[i].state # "sent") =>
             /\ pendingCellsRef' = pendingCellsRef
             /\ pendingPointsRef' = pendingPointsRef]_vars

\* C12 witness: a store call of this session has failed, and the buffer holds
\* a cell folded after that call's snapshot and none of the cells it carried.
C12_Witness ==
    \E i \in DOMAIN syncLog :
        /\ syncLog[i].state = "error"
        /\ syncLog[i].session = userChanges
        /\ syncLog[i].write.cellIds # <<>>
        /\ pendingCellsRef # <<>>
        /\ \A k \in DOMAIN pendingCellsRef :
               pendingCellsRef[k] \notin syncLog[i].write.mapGridIds

\* C13: a flush requested (by a consumer or by the app going to the
\* background) while the buffer holds no cell and no points issues no store
\* call and changes nothing of the provider or the store.
C13_EmptyFlushIsNoOp ==
    [][(/\ flushRequests' = flushRequests + 1
        /\ pendingCellsRef = <<>>
        /\ pendingPointsRef = 0) =>
             /\ syncLog' = syncLog
             /\ pendingCellsRef' = <<>>
             /\ pendingPointsRef' = 0
             /\ trackingState' = trackingState
             /\ storeDocs' = storeDocs
             /\ loads' = loads
             /\ clientIdRef' = clientIdRef
             /\ lastLoadedUserIdRef' = lastLoadedUserIdRef]_vars

\* C13 witness: somebody is signed in, a flush has been requested, no fix was
\* ever folded (so the buffer was empty then) and no store call exists.
C13_Witness ==
    /\ flushRequests = 1
    /\ lastResult = NoResult
    /\ clientIdRef = "A"
    /\ pendingCellsRef = <<>>
    /\ pendingPointsRef = 0
    /\ syncLog = <<>>

\* C14: whenever the app becomes backgrounded while somebody is signed in and
\* the buffer is not empty, a flush is issued (one store call, the buffer
\* emptied), whatever the app state was before.
C14_BackgroundAlwaysFlushes ==
    [][(/\ appState' = "background"
        /\ appState # "background"
        /\ clientIdRef # NoUser
        /\ (pendingCellsRef # <<>> \/ pendingPointsRef # 0)) =>
             /\ Len(syncLog') = Len(syncLog) + 1
             /\ pendingCellsRef' = <<>>
             /\ pendingPointsRef' = 0]_vars

\* C38: while nobody is signed in, no step issues a store call or takes
\* anything out of the buffer: a requested flush (by a consumer or by the
\* app-state listener) leaves pendingCellsRef and pendingPointsRef as they
\* are, and a fix only adds to them, also at and beyond the size threshold.
C38_NoFlushWithoutIdentity ==
    [][(clientIdRef = NoUser /\ clientIdRef' = NoUser) =>
           /\ Len(syncLog') = Len(syncLog)
           /\ Len(pendingCellsRef') >= Len(pendingCellsRef)
           /\ SubSeq(pendingCellsRef', 1, Len(pendingCellsRef)) = pendingCellsRef
           /\ pendingPointsRef' >= pendingPointsRef
           /\ flushRequests' # flushRequests =>
                  /\ pendingCellsRef' = pendingCellsRef
                  /\ pendingPointsRef' = pendingPointsRef]_vars

\* C38 witness: nobody ever signed in, flushes were requested twice, no store
\* call was issued and the buffer holds eleven cells, one more than the size
\* threshold.
C38_Witness ==
    /\ clientIdRef = NoUser
    /\ userChanges = 0
    /\ flushRequests = 2
    /\ syncLog = <<>>
    /\ Len(pendingCellsRef) = AutoFlushThreshold + 1
    /\ pendingPointsRef > AutoFlushThreshold * CellBonus

-----------------------------------------------------------------------------
(* SpecSession: two users sign in, switch and sign out on a short street,  *)
(* with the same fixes, flushes, app-state changes and store answers as    *)
(* SpecWalk.                                                                *)

\* the street has the cells 0 .. SessionLast
SessionLast == 2

\* sign-ins, sign-outs and flushBuffer calls in one run
SessionEvents == 3

SessionEventLeft == userChanges + flushRequests < SessionEvents

SessionInit ==
    /\ AdvanceIdle
    /\ CommitIdle
    /\ MatchIdle
    /\ TrackIdle

SessionNext ==
    \/ \E p \in {position, position + 1} : p <= SessionLast /\ GpsFix(p)
    \/ \E u \in Uids \cup {NoUser} : SessionEventLeft /\ UserChanged(u)
    \/ \E l \in loads : LoadRead(l)
    \/ \E l \in loads : LoadDelivered(l)
    \/ \E l \in loads : LoadFailed(l)
    \/ SessionEventLeft /\ FlushBufferCalled
    \/ \E nextState \in {"active", "inactive", "background"} :
          /\ (appState = "active" /\ nextState = "background") => SessionEventLeft
          /\ AppStateChanged(nextState)
    \/ \E i \in DOMAIN syncLog : SetDocApplied(i)
    \/ \E i \in DOMAIN syncLog : SetDocFailed(i)

SpecSession == SessionInit /\ [][SessionNext]_vars

\* C15: the step in which the identity changes (a sign-out, a sign-in or
\* another uid) leaves the tracking state equal to the empty initial state
\* and the buffer with no cells and zero points: nothing folded under the
\* previous identity is there when the next fix is folded.
C15_ResetOnIdentityChange ==
    [][user' # user =>
           /\ trackingState' = createInitialTrackingState
           /\ pendingCellsRef' = <<>>
           /\ pendingPointsRef' = 0]_vars

\* C15 witness: A was signed in and flushed what was folded under A, then B
\* signed in: tracking state and buffer are empty.
C15_Witness ==
    /\ user = "B"
    /\ \E i \in DOMAIN syncLog : syncLog[i].write.clientId = "A"
    /\ trackingState = createInitialTrackingState
    /\ pendingCellsRef = <<>>
    /\ pendingPointsRef = 0

\* no element occurs twice in the sequence
NoRepeats(seq) == \A i, j \in DOMAIN seq : seq[i] = seq[j] => i = j

\* C33: pendingCellsRef never holds the same cell id twice, and no flush
\* (by a consumer, by the app-state listener or by the size threshold) hands
\* the store a cell-id list with a duplicate.
C33_NoDuplicateCellIds ==
    /\ NoRepeats(pendingCellsRef)
    /\ \A i \in DOMAIN syncLog : NoRepeats(syncLog[i].write.cellIds)

\* C33 witness: a flush has handed two cells to the store, and the last fix
\* was folded in a cell that is in the buffer already.
C33_Witness ==
    /\ \E i \in DOMAIN syncLog : Len(syncLog[i].write.cellIds) >= 2
    /\ lastResult # NoResult
    /\ ~lastResult.newCellVisited
    /\ \E i \in DOMAIN pendingCellsRef : pendingCellsRef[i] = lastResult.lastCellId

\* C35: a load started for one identity whose answer arrives when that
\* identity is no longer the signed-in one (nobody, or another uid, is)
\* leaves the tracking state as it is.
C35_StaleLoadIsDropped ==
    [][\A l \in loads :
           (l \notin loads' /\ l.uid # user) => trackingState' = trackingState]_vars

\* C37: a store call issued for an identity carries only cell ids and points
\* of fixes folded while that identity was the signed-in one.  Every call
\* names an identity; the calls issued since the last change of identity name
\* the identity signed in now, and together they carry no more cell ids and
\* no more points than the fixes folded since that change have gained.
C37_FlushCarriesOwnSessionOnly ==
    /\ \A i \in DOMAIN syncLog :
           /\ syncLog[i].write.clientId # NoUser
           /\ syncLog[i].session = userChanges => syncLog[i].write.clientId = user
    /\ SentCells(SessionWrites) <= bufferedCells
    /\ SentPoints(SessionWrites) <= bufferedPoints

\* C37 witness: fixes were folded under A and with nobody signed in, then B
\* signed in, walked into a new cell and flushed: B's call carries that one
\* cell.
C37_Witness ==
    /\ user = "B"
    /\ userChanges = 2
    /\ position = 2
    /\ Len(syncLog) = 1
    /\ syncLog[1].write.clientId = "B"
    /\ Len(syncLog[1].write.cellIds) = 1
    /\ bufferedCells = 1

\* C24: for one identity the store applies the writes of the flushes in the
\* order in which the flushes were made: when the write of a flush is
\* applied, no write of a later flush of that identity has been applied.
C24_StoreAppliesInFlushOrder ==
    [][\A j \in DOMAIN syncLog :
           (syncLog[j].state = "sent" /\ syncLog'[j].state = "ok") =>
               \A i \in DOMAIN syncLog :
                   (i > j /\ syncLog[i].write.clientId = syncLog[j].write.clientId)
                       => syncLog[i].state # "ok"]_vars

-----------------------------------------------------------------------------
(* SpecBusy: the device reports fixes while setDoc calls of flushes and a  *)
(* match attempt (rate-limiter wait, oracle call, retry backoff, commit)   *)
(* are in flight.  The quest fields of the client document (clientDoc) and *)
(* its tracker fields (storeDocs) are kept in their own variables.  The    *)
(* tracker never reads the clock, so the clock is stepped only while the   *)
(* attempt sleeps.                                                         *)

\* the street has the cells 0 .. BusyLast
BusyLast == 1

\* sign-ins and flushBuffer calls in one run
BusyEvents == 2

\* the clock stops this many ticks after StartTime
BusyTicks == 5

BusyEventLeft == userChanges + flushRequests < BusyEvents

BusyInit ==
    /\ AdvanceIdle
    /\ CommitIdle
    /\ MatchIdle
    /\ TrackIdle

BusyNext ==
    \/ \E p \in {position, position + 1} : p <= BusyLast /\ GpsFix(p)
    \/ BusyEventLeft /\ UserChanged("A")
    \/ \E l \in loads : LoadRead(l)
    \/ \E l \in loads : LoadDelivered(l)
    \/ \E l \in loads : LoadFailed(l)
    \/ BusyEventLeft /\ FlushBufferCalled
    \/ \E i \in DOMAIN syncLog : SetDocApplied(i)
    \/ \E i \in DOMAIN syncLog : SetDocFailed(i)
    \/ /\ \/ SubmitQuestImage(1, At(0, 0), 1)
          \/ SelectCandidates(1)
          \/ SelectCandidatesFailed(1)
          \/ PrepareImages(1)
          \/ PrepareImagesFailed(1)
          \/ RateLimitWaitOver(1)
          \/ OracleReturns(1, Result(TRUE, 95))
          \/ OracleReturnsNoJson(1)
          \/ OracleThrows(1, {"500"})
          \/ BackoffOver(1)
          \/ CommitApplied(1)
          \/ CommitFailed(1)
          \/ attempts[1].pc \in {"rateWait", "backoff"} /\ Tick(BusyTicks)
       /\ UNCHANGED <<advVars, commitLog, trackVars>>

SpecBusy == BusyInit /\ [][BusyNext]_vars

\* a setDoc of a flush has not been answered, or a match attempt is running
InFlight ==
    \/ \E i \in DOMAIN syncLog : syncLog[i].state = "sent"
    \/ \E p \in Attempts : attempts[p].pc \notin {"idle", "done"}

\* C23: a fix that reports a move of the device while a flush's store call
\* or a match attempt is in flight (also in a rate-limiter wait or a retry
\* backoff) is folded in the step that delivers it: the tracking state is
\* the one handleLocationUpdate returns, its points and its new cell are in
\* the pending buffer, and the calls in flight are as they were.
C23_FixFoldedWhileInFlight ==
    [][(InFlight /\ position' # position) =>
           LET result == handleLocationUpdate(trackingState, WalkPoint(position'))
           IN  /\ trackingState' = result.state
               /\ pendingPointsRef' = pendingPointsRef + result.gainedPoints
               /\ result.newCellVisited =>
                      \E i \in DOMAIN pendingCellsRef' :
                          pendingCellsRef'[i] = result.lastCellId
               /\ syncLog' = syncLog
               /\ attempts' = attempts]_vars

\* C23 witness: the flush's setDoc is still unanswered and the match attempt
\* sleeps in its retry backoff; the fix that entered cell 1 after the flush
\* is in the state and in the new buffer.
C23_Witness ==
    /\ \E i \in DOMAIN syncLog : syncLog[i].state = "sent"
    /\ attempts[1].pc = "backoff"
    /\ trackingState.lastLocation = WalkPoint(1)
    /\ pendingCellsRef = <<latLngToCell(WalkPoint(1))>>
    /\ pendingPointsRef > 0

-----------------------------------------------------------------------------
(* SpecReturn: user A, whose client document already lists visited cells   *)
(* from an earlier run of the app, signs in and walks the same street.     *)

\* the street has the cells 0 .. ReturnLast
ReturnLast == 1

\* sign-ins, sign-outs and flushBuffer calls in one run
ReturnEvents == 2

ReturnEventLeft == userChanges + flushRequests < ReturnEvents

\* what A's client document can hold when the app starts
ReturnDocs ==
    {[exists |-> TRUE, accumulatedScore |-> 50 * Cardinality(cells), mapGridIds |-> cells] :
         cells \in {{latLngToCell(WalkPoint(0))},
                    {latLngToCell(WalkPoint(0)), latLngToCell(WalkPoint(1))}}}

ReturnInit ==
    /\ AdvanceIdle
    /\ CommitIdle
    /\ MatchIdle
    /\ TrackStart
    /\ \E d \in ReturnDocs : storeDocs = [u \in Uids |-> IF u = "A" THEN d ELSE NoDoc]

ReturnNext ==
    \/ \E p \in {position, position + 1} : p <= ReturnLast /\ GpsFix(p)
    \/ \E u \in {NoUser, "A"} : ReturnEventLeft /\ UserChanged(u)
    \/ \E l \in loads : LoadRead(l)
    \/ \E l \in loads : LoadDelivered(l)
    \/ \E l \in loads : LoadFailed(l)
    \/ ReturnEventLeft /\ FlushBufferCalled
    \/ \E i \in DOMAIN syncLog : SetDocApplied(i)
    \/ \E i \in DOMAIN syncLog : SetDocFailed(i)

SpecReturn == ReturnInit /\ [][ReturnNext]_vars

\* C28: a fix folded while an identity is signed in, in a cell that the
\* identity's durable visited-cell list contains, earns no cell bonus and
\* does not put the cell into the pending buffer, also when it is folded
\* before the load of the durable state has completed.
C28_NoBonusForDurableCell ==
    [][(user # NoUser /\ lastResult' # lastResult
        /\ lastResult'.lastCellId \in storeDocs[user].mapGridIds) =>
           /\ ~lastResult'.newCellVisited
           /\ lastResult'.gainedPoints < CellBonus
           /\ \A i \in DOMAIN pendingCellsRef' :
                  pendingCellsRef'[i] # lastResult'.lastCellId]_vars

\* C36: when the load started for the signed-in identity is answered with
\* the identity's document, the local points become the loaded
\* accumulatedScore plus the points gained by the fixes folded since the
\* identity signed in.
C36_LoadKeepsPointsGainedMeanwhile ==
    [][\A l \in loads :
           (/\ l \notin loads'
            /\ l.read
            /\ l.snap.exists
            /\ l.uid = user
            /\ l.id = userChanges - 1
            /\ trackingState' # trackingState) =>
               trackingState'.points = l.snap.accumulatedScore * 100 + bufferedPoints]_vars

-----------------------------------------------------------------------------
(* SpecStroll: one user signs in and out while the device moves a few      *)
(* metres at a time inside one cell, with requested flushes in between.    *)

\* the stroll has the fixes 0 .. StrollLast
StrollLast == 3

\* sign-ins, sign-outs and flushBuffer calls in one run
StrollEvents == 3

StrollEventLeft == userChanges + flushRequests < StrollEvents

\* fix i of the stroll: 3.1 m east of fix i - 1, all in the cell 0_0
StrollPoint(i) == At(0, 320 + 40 * i)

StrollInit ==
    /\ AdvanceIdle
    /\ CommitIdle
    /\ MatchIdle
    /\ TrackIdle

\* map.tsx: the watchPositionAsync callback reports where the device is now
StrollFix(p) ==
    /\ p \in 0..StrollLast
    /\ position' = p
    /\ OnLocationUpdate(StrollPoint(p))

StrollNext ==
    \/ \E p \in {position, position + 1} : StrollFix(p)
    \/ \E u \in {NoUser, "A"} : StrollEventLeft /\ UserChanged(u)
    \/ \E l \in loads : LoadRead(l)
    \/ \E l \in loads : LoadDelivered(l)
    \/ \E l \in loads : LoadFailed(l)
    \/ StrollEventLeft /\ FlushBufferCalled
    \/ \E i \in DOMAIN syncLog : SetDocApplied(i)
    \/ \E i \in DOMAIN syncLog : SetDocFailed(i)

SpecStroll == StrollInit /\ [][StrollNext]_vars

\* C40: every setDoc that syncBatchToFirebase issues carries at least one
\* cell id or a rounded score increment other than 0.
C40_NoEmptyStoreWrite ==
    \A i \in DOMAIN syncLog :
        \/ syncLog[i].write.cellIds # <<>>
        \/ syncLog[i].write.roundedPoints # 0

-----------------------------------------------------------------------------
(* SpecGrid: latLngToCell is called with a coordinate, then cellCenter and *)
(* cellToPolygon with the CellId it returned.                              *)

\* offsets from ORIGIN in micro-degrees: both sides of the origin and of the
\* first cell boundaries (50 m is 449.2 micro-degrees of latitude and 643.7
\* of longitude), and some cells further
GridLatOffsets == {-9000, -450, -449, -1, 0, 1, 449, 450, 9000}

GridLngOffsets == {-12000, -644, -643, -1, 0, 1, 500, 643, 644, 650, 12000}

GridPoints == {At(dLat, dLng) : dLat \in GridLatOffsets, dLng \in GridLngOffsets}

GridInit ==
    /\ AdvanceIdle
    /\ CommitIdle
    /\ MatchIdle
    /\ TrackIdle

gridRest ==
    <<trackingState, lastResult, fixCount, bonusCalls, fixCells, fixWalk, stateBefore,
      commitVars, matchVars, trackVars>>

\* latLngToCell(location) is called
LatLngToCell(location) ==
    /\ gridPoint' = location
    /\ gridCellId' = CellIdString(latLngToCell(location))
    /\ gridCenter' = NoLoc
    /\ gridPolygon' = <<>>
    /\ UNCHANGED gridRest

\* cellCenter is called with the id
CellCenter ==
    /\ gridCellId # <<>>
    /\ gridCenter' = cellCenter(gridCellId)
    /\ UNCHANGED <<gridPoint, gridCellId, gridPolygon, gridRest>>

\* cellToPolygon is called with the id
CellToPolygon ==
    /\ gridCellId # <<>>
    /\ gridPolygon' = cellToPolygon(gridCellId)
    /\ UNCHANGED <<gridPoint, gridCellId, gridCenter, gridRest>>

GridNext ==
    \/ \E location \in GridPoints : LatLngToCell(location)
    \/ CellCenter
    \/ CellToPolygon

SpecGrid == GridInit /\ [][GridNext]_vars

\* the corners NW, NE, SE, SW span a rectangle and the point is inside it
InsidePolygon(point, polygon) ==
    /\ polygon[1].lat = polygon[2].lat
    /\ polygon[3].lat = polygon[4].lat
    /\ polygon[1].lng = polygon[4].lng
    /\ polygon[2].lng = polygon[3].lng
    /\ polygon[4].lat < point.lat /\ point.lat < polygon[1].lat
    /\ polygon[1].lng < point.lng /\ point.lng < polygon[2].lng

\* C26: the CellId of a coordinate is the same whenever it is computed; the
\* centre of its cell lies inside the footprint of the cell; and the centre
\* resolves back to the cell's own id.
C26_CenterInsideItsCell ==
    /\ gridCellId # <<>> => gridCellId = CellIdString(latLngToCell(gridPoint))
    /\ gridCenter # NoLoc => CellIdString(latLngToCell(gridCenter)) = gridCellId
    /\ (gridCenter # NoLoc /\ gridPolygon # <<>>)
           => InsidePolygon(gridCenter, gridPolygon)

\* C26 witness: a point south-west of the origin, in the cell "-1_-1", with
\* the centre and the footprint of that cell computed.
C26_Witness ==
    /\ gridPoint = At(-1, -1)
    /\ gridCellId = <<"-", "1", "_", "-", "1">>
    /\ gridCenter = cellCenter(gridCellId)
    /\ gridPolygon = cellToPolygon(gridCellId)

\* C27: the point 0.0005 degrees of longitude east of the origin resolves to
\* the origin's CellId "0_0" (it is 38.8 m away, inside the 50 m cell); the
\* point 0.00065 degrees east (50.5 m) resolves to a different one.
C27_HalfMilliDegreeSameCell ==
    /\ gridPoint = At(0, 500) => gridCellId = CellIdString(latLngToCell(ORIGIN))
    /\ gridPoint = At(0, 650) => gridCellId # CellIdString(latLngToCell(ORIGIN))

\* C27 witness: latLngToCell was called with the point 0.0005 degrees east
\* of the origin and returned "0_0".
C27_Witness ==
    /\ gridPoint = At(0, 500)
    /\ gridCellId = <<"0", "_", "0">>

\* C27 as stated: the point 0.0005 degrees of longitude east of the origin
\* resolves to a CellId other than the origin's.
C27_HalfMilliDegreeOtherCell ==
    gridPoint = At(0, 500) => gridCellId # CellIdString(latLngToCell(ORIGIN))

====
